---- MODULE Spec2Model ----
(***************************************************************************)
(* State-machine model of tgbot.py: the CK reconciliation pass             *)
(* (sync_ck_to_panels), the '/ql clean' cleanup, the QingLongAPI client,   *)
(* the credential parsing helpers and the IP change-detection job          *)
(* (update_ip_whitelist).                                                  *)
(*                                                                         *)
(* Strings are sequences of tokens.  The tokens "pt_key=", "pt_pin=", ";"  *)
(* and " " are the substrings the code searches for, splits on or strips;  *)
(* every other token stands for a run of ordinary characters.              *)
(***************************************************************************)
EXTENDS Integers, Sequences, FiniteSets, TLC

(* ------------------------------------------------------------------ *)
(* Bounds of the model                                                  *)
(* ------------------------------------------------------------------ *)

\* Number of passes (reconciliations and cleanups together) one behaviour starts.
MaxPasses == 2

\* Number of requests that fail (no token, transport failure, panel error) in
\* one behaviour of passes run one at a time.
MaxFailures == 2

\* The same, in one behaviour of overlapping passes.
MaxOverlapFailures == 1

\* Number of exceptions raised while the daily scheduler computes or sleeps.
MaxSchedExceptions == 2

\* Largest value of safe_request's retries argument (its default is 2).
MaxRetries == 4

\* Number of operations called on one panel client.
MaxClientCalls == 3

\* Largest number of operators in CONFIG['TG_USER_IDS'].
MaxUsers == 2

\* Longest string, in tokens, given to the parsing helpers.
MaxLen == 5

(* ------------------------------------------------------------------ *)
(* Python string operations on token sequences                          *)
(* ------------------------------------------------------------------ *)

\* Python's None (a value no string equals).
None == <<"<None>">>

RECURSIVE SplitFrom(_, _, _)
SplitFrom(s, sep, cur) ==
    IF s = <<>> THEN <<cur>>
    ELSE IF Head(s) = sep THEN <<cur>> \o SplitFrom(Tail(s), sep, <<>>)
    ELSE SplitFrom(Tail(s), sep, Append(cur, Head(s)))

\* str.split(sep)
split(s, sep) == SplitFrom(s, sep, <<>>)

\* "tok in part"
Contains(part, tok) == \E i \in 1..Len(part) : part[i] = tok

RECURSIVE LStrip(_, _)
LStrip(s, ch) ==
    IF s # <<>> /\ Head(s) = ch THEN LStrip(Tail(s), ch) ELSE s

RECURSIVE RStrip(_, _)
RStrip(s, ch) ==
    IF s # <<>> /\ s[Len(s)] = ch THEN RStrip(SubSeq(s, 1, Len(s) - 1), ch) ELSE s

\* str.strip() (white space) and str.strip(';')
strip(s, ch) == RStrip(LStrip(s, ch), ch)

\* str.replace(tok, "")
replace(s, tok) == SelectSeq(s, LAMBDA t : t # tok)

\* next((part for part in parts if tok in part), "")
RECURSIVE FirstWith(_, _)
FirstWith(parts, tok) ==
    IF parts = <<>> THEN <<>>
    ELSE IF Contains(Head(parts), tok) THEN Head(parts)
    ELSE FirstWith(Tail(parts), tok)

(* ------------------------------------------------------------------ *)
(* Configuration (CONFIG, loaded once at start-up)                      *)
(* ------------------------------------------------------------------ *)

\* CONFIG['QL_PANELS']: the secondary panels.
QL_PANELS == {"p1", "p2"}

\* CONFIG['PRESERVED_PT_PINS']
PRESERVED_PT_PINS == << <<"pt_pin=", "C", ";">> >>

(* ------------------------------------------------------------------ *)
(* Credential parsing and the preservation test                         *)
(* ------------------------------------------------------------------ *)

extract_pt_pin(cookie_str) ==
    LET part == FirstWith(split(cookie_str, ";"), "pt_pin=")
    IN  IF part = <<>> THEN None
        ELSE replace(strip(part, " "), "pt_pin=")

should_preserve_cookie(pt_pin) ==
    IF pt_pin = None \/ pt_pin = <<>> THEN FALSE
    ELSE \E i \in 1..Len(PRESERVED_PT_PINS) :
            strip(replace(PRESERVED_PT_PINS[i], "pt_pin="), ";") = pt_pin

\* The two fields the listings look for in a record's value.
PtKeyPartOrPin(value) == FirstWith(split(value, ";"), "pt_pin=")

PtKeyPart(value) == FirstWith(split(value, ";"), "pt_key=")
PtPinPart(value) == FirstWith(split(value, ";"), "pt_pin=")

\* f"{pt_key.strip()};{pt_pin.strip()};"
NormalValue(value) ==
    strip(PtKeyPart(value), " ") \o <<";">> \o strip(PtPinPart(value), " ") \o <<";">>

\* The body of get_enabled_cookies_with_remarks on the panel's record list.
EnabledWithRemarksAnyStatus(data) ==
    LET sel == SelectSeq(data, LAMBDA item : /\ item.name = "JD_COOKIE"
                                             /\ PtKeyPart(item.value) # <<>>
                                             /\ PtPinPart(item.value) # <<>>)
    IN  [i \in 1..Len(sel) |-> [value |-> NormalValue(sel[i].value),
                                remarks |-> sel[i].remarks]]

RECURSIVE EnabledWithRemarks(_)
EnabledWithRemarks(data) ==
    IF data = <<>> THEN <<>>
    ELSE LET item == Head(data)
             rest == EnabledWithRemarks(Tail(data))
         IN  IF /\ item.status = 0
                /\ item.name = "JD_COOKIE"
                /\ PtKeyPart(item.value) # <<>>
                /\ PtPinPart(item.value) # <<>>
             THEN << [value |-> NormalValue(item.value), remarks |-> item.remarks] >> \o rest
             ELSE rest

\* The body of get_all_cookies on the panel's record list.
AllCookiesEnabledOnly(data) ==
    { [id |-> item.id, value |-> item.value,
       pt_pin |-> strip(PtPinPart(item.value), " "), status |-> item.status] :
      item \in { it \in data : /\ it.status = 0
                               /\ it.name = "JD_COOKIE"
                               /\ PtKeyPart(it.value) # <<>>
                               /\ PtPinPart(it.value) # <<>> } }

AllCookies(data) ==
    { [id |-> item.id, value |-> item.value,
       pt_pin |-> strip(PtPinPart(item.value), " "), status |-> item.status] :
      item \in { it \in data : /\ it.name = "JD_COOKIE"
                               /\ PtKeyPart(it.value) # <<>>
                               /\ PtPinPart(it.value) # <<>> } }

\* clean_panel's partition: the ids of the listed cookies that are not preserved.
ToDeleteIdsAll(cookies_info) == { c.id : c \in cookies_info }

ToDeleteIds(cookies_info) ==
    { c.id : c \in { k \in cookies_info :
                       ~should_preserve_cookie(extract_pt_pin(k.pt_pin)) } }


(* ------------------------------------------------------------------ *)
(* Panel records the model starts from                                  *)
(* ------------------------------------------------------------------ *)

\* A well-formed cookie value "pt_key=<key>;pt_pin=<pin>;".
ck(key, pin) == <<"pt_key=", key, ";", "pt_pin=", pin, ";">>

\* One record of a panel's /open/envs list.
Env(id, name, value, remarks, status) ==
    [id |-> id, name |-> name, value |-> value, remarks |-> remarks, status |-> status]

\* Record lists the primary panel may hold.
PrimaryAB ==
    << Env(1, "JD_COOKIE", <<"pt_key=", "k1", ";", " ", "pt_pin=", "A", ";">>, "x", 0),
       Env(2, "JD_COOKIE", ck("k1", "B"), "y", 0) >>

PrimaryAC ==
    << Env(1, "JD_COOKIE", ck("k1", "A"), "x", 0),
       Env(2, "JD_COOKIE", ck("k1", "C"), "z", 0) >>

PrimaryNoneEnabled ==
    << Env(1, "JD_COOKIE", ck("k1", "A"), "x", 1),
       Env(2, "JD_COOKIE", <<"pt_pin=", "B", ";">>, "y", 0),
       Env(3, "OTHER", ck("k1", "B"), "y", 0) >>

PrimaryStates == { <<>>, PrimaryAB, PrimaryAC, PrimaryNoneEnabled }

\* Record sets a secondary panel may hold before the first pass.
SecondaryAC ==
    { Env(1, "JD_COOKIE", ck("k0", "A"), "old", 1),
      Env(2, "JD_COOKIE", <<"pt_key=", "k0", ";", " ", "pt_pin=", "C", ";">>, "keep", 0) }

SecondaryMixed ==
    SecondaryAC \cup
    { Env(3, "JD_COOKIE", <<"pt_pin=", "B", ";">>, "bad", 0),
      Env(4, "OTHER", <<"v">>, "", 0) }

\* What the secondary panels may hold before the first pass.
SecondaryStates ==
    { [p \in QL_PANELS |-> IF p = "p1" THEN SecondaryMixed ELSE {}],
      [p \in QL_PANELS |-> SecondaryAC],
      [p \in QL_PANELS |-> IF p = "p1" THEN SecondaryAC ELSE SecondaryMixed] }

\* The remote identifier a panel assigns next: one past the largest it holds.
FreeId(records) ==
    IF records = {} THEN 1
    ELSE 1 + CHOOSE m \in { r.id : r \in records } : \A r \in records : r.id <= m

(* ------------------------------------------------------------------ *)
(* State                                                                *)
(* ------------------------------------------------------------------ *)

\* The two callers of the pass: the periodic loop and the chat commands.
Procs == {"sched", "manual"}

VARIABLES
    primary,        \* the primary panel's record list
    secondary,      \* panel -> the secondary panel's records
    nextId,         \* panel -> the next remote identifier the panel assigns
    pc,             \* proc -> "idle" | "clean" | "add" | "done"
    kind,           \* proc -> "none" | "sync" | "clean"
    main_cookies,   \* proc -> main_cookies_with_remarks of the running pass
    task,           \* proc -> panel -> [st, token, cookies_info, to_delete_ids]
    clean_results,  \* proc -> panel -> clean_panel's result
    add_results,    \* proc -> panel -> add_cookies_to_panel's result
    total_deleted,  \* proc -> total_deleted
    success_count,  \* proc -> success_count
    log,            \* proc -> the log lines of the running pass
    calls,          \* proc -> the requests the pass sent to secondary panels
    outcome,        \* proc -> panel -> how each request of the pass ended
    fetched,        \* proc -> how the primary fetch ended and what the primary held
    before,         \* proc -> panel -> the panel's records when the pass started
    overlapped,     \* proc -> whether the pass ran while another pass was running
    order,          \* proc -> the rank of its running pass among the passes started
    started,        \* number of passes started so far
    failuresLeft,   \* number of requests that may still fail
    prev,           \* what the pass that returned last fetched and how it went
    reply           \* the bot's reply to the operator's last command, as last edited

syncVars == << primary, secondary, nextId, pc, kind, main_cookies, task,
               clean_results, add_results, total_deleted, success_count,
               log, calls, outcome, fetched, before, overlapped, order,
               started, failuresLeft, prev, reply >>

\* The panels themselves.
panelVars == << primary, secondary, nextId >>

\* What a pass records about itself when it starts.
startVars == << kind, main_cookies, fetched, before, order, started >>

\* The addresses the host's egress IP ranges over.
IPs == {"10.0.0.1", "10.0.0.2", "10.0.0.3"}

\* redis_client.get of a key that was never set.
NoIp == "None"

VARIABLES
    egress,         \* the host's public IP, as the IP-echo service sees it
    redis_ip,       \* the cache's CONFIG['CURRENT_IP_KEY']
    whitelist,      \* the proxy service's allowlist
    ip_pc,          \* "idle" | "detect" | "get" | "add" | "del" | "set" | "done"
    current_ip,     \* update_ip_whitelist's local current_ip
    old_ip,         \* update_ip_whitelist's local old_ip
    ip_log,         \* the log lines of the running check
    ip_calls,       \* the allowlist calls and cache writes of the running check
    cache0          \* the cached IP when the running check started

ipVars == << egress, redis_ip, whitelist, ip_pc, current_ip, old_ip, ip_log,
             ip_calls, cache0 >>

\* The recurring loops main starts: three periodic_task loops and the daily one.
Periodic == {"ck", "ip", "sync"}

Loops == Periodic \cup {"daily"}

VARIABLES
    loop_pc,        \* loop -> "run" | "running" | "sleep" | "compute" | "wait" | "fallback" | "dead"
    job_failed,     \* loop -> the job's last invocation raised and it was not invoked since
    sched_exc,      \* the daily loop caught an exception and has not invoked the job since
    target,         \* schedule_daily_task's <<hour, minute>>
    now,            \* schedule_daily_task's local now
    next_run,       \* schedule_daily_task's local next_run
    wait_seconds,   \* schedule_daily_task's wait_seconds, as seconds and microseconds
    excLeft,        \* number of exceptions the daily loop's own steps may still raise
    active,         \* periodic loop -> number of its job invocations that have not returned
    last_event      \* periodic loop -> the last await of the loop that returned

schedVars == << loop_pc, job_failed, sched_exc, target, now, next_run, wait_seconds, excLeft,
                active, last_event >>

VARIABLES
    req_pc,         \* safe_request: "idle" | "loop" | "sleep" | "returned" | "raised"
    retries,        \* safe_request's retries
    attempt,        \* safe_request's loop variable
    req_trace,      \* the attempts' outcomes and the sleeps of the running call, in order
    req_result      \* what the call returned, or the error it raised

reqVars == << req_pc, retries, attempt, req_trace, req_result >>

VARIABLES
    cl_token,       \* the client's self.token
    cl_sent,        \* the requests the client sent to its panel, in order
    cl_result,      \* how the client's last operation ended
    cl_calls,       \* number of operations called on the client so far
    cl_op,          \* the client's last operation and its argument
    cl_panel        \* the ids of the records the client's panel holds

clientVars == << cl_token, cl_sent, cl_result, cl_calls, cl_op, cl_panel >>

VARIABLES
    fn_input,       \* the string given to the parsing helpers
    fn_parsed,      \* what get_all_cookies lists of a record with that value
    fn_normal,      \* what get_enabled_cookies_with_remarks lists of it
    fn_pin,         \* extract_pt_pin of the listed pt_pin
    fn_preserved,   \* should_preserve_cookie of the string
    fn_done         \* the helpers applied so far

fnVars == << fn_input, fn_parsed, fn_normal, fn_pin, fn_preserved, fn_done >>

VARIABLES
    ck_pc,          \* the CK fetch job: "idle" | "fetch" | "save" | "set" | "done"
    ck_caller,      \* "loop" (update_ck) | "getck" (get_ck_command)
    ck_cookies,     \* the job's local cookies
    ck_file,        \* the lines of the file at CONFIG['CK_FILE_PATH']
    ck_log,         \* the log lines and replies of the running job
    ck_file0,       \* the file when the running job started
    ck_hash0        \* the cached CK hash when the running job started

ckVars == << ck_pc, ck_caller, ck_cookies, ck_file, ck_log, ck_file0, ck_hash0 >>

VARIABLES
    panels_valid,   \* whether every entry of CONFIG['QL_PANELS'] has its four keys
    tg_users,       \* the number of entries of CONFIG['TG_USER_IDS']
    notices,        \* proc -> the notify calls of its pass
    pass_exc        \* proc -> "none" | "caught" | "propagated": the pass's exception

excVars == << panels_valid, tg_users, notices, pass_exc >>

VARIABLES
    redis_ck_hash,  \* the cache's CONFIG['CURRENT_CK_HASH_KEY']
    cache_log       \* the cache accesses so far: which job, get or set, which key

cacheVars == << redis_ck_hash, cache_log >>

\* The variables neither the passes nor the IP job touch.
otherVars == << schedVars, reqVars, clientVars, fnVars, ckVars >>

\* What the scheduler loops, safe_request, a panel client on its own and the
\* parsing helpers on their own leave alone.
notSched == << syncVars, ipVars, reqVars, clientVars, fnVars, ckVars, excVars, cacheVars >>

notReq == << syncVars, ipVars, schedVars, clientVars, fnVars, ckVars, excVars, cacheVars >>

notClient == << syncVars, ipVars, schedVars, reqVars, fnVars, ckVars, excVars, cacheVars >>

notFn == << syncVars, ipVars, schedVars, reqVars, clientVars, ckVars, excVars, cacheVars >>

vars == << syncVars, ipVars, otherVars, excVars, cacheVars >>

NoResult == [success |-> FALSE, message |-> "pending", deleted_count |-> 0]

NoTask == [st |-> "idle", token |-> FALSE, cookies_info |-> {}, to_delete_ids |-> {}]

NoOutcome == [list |-> "none", delete |-> "none", add |-> "none", adds |-> 0]

NoFetch == [o |-> "none", data |-> <<>>]

NoPrev == [kind |-> "none", main |-> <<>>, ok |-> FALSE]

\* The bot's reply: its text, the number it shows, and its per-panel lines.
Reply(text, n, lines) == [text |-> text, count |-> n, panels |-> lines]

(* ------------------------------------------------------------------ *)
(* The panel's REST endpoints (the remote side of QingLongAPI)          *)
(* ------------------------------------------------------------------ *)

\* DELETE /open/envs with a list of ids
PanelDelete(records, ids) == { r \in records : r.id \notin ids }

\* POST /open/envs with a list of {name, value, remarks}: a pure append
PanelAdd(records, first, envs) ==
    records \cup { Env(first + i - 1, envs[i].name, envs[i].value, envs[i].remarks, 0) :
                   i \in 1..Len(envs) }

\* add_cookies: the request body built from cookies_info
AddBodyNoRemarks(cookies_info) ==
    [ i \in 1..Len(cookies_info) |->
        [name |-> "JD_COOKIE", value |-> cookies_info[i].value, remarks |-> ""] ]

AddBody(cookies_info) ==
    [ i \in 1..Len(cookies_info) |->
        [name |-> "JD_COOKIE", value |-> cookies_info[i].value,
         remarks |-> cookies_info[i].remarks] ]

(* ------------------------------------------------------------------ *)
(* Initial state                                                        *)
(* ------------------------------------------------------------------ *)

InitPanels(primaries, secondaries, budget) ==
    /\ primary \in primaries
    /\ secondary \in secondaries
    /\ nextId = [p \in QL_PANELS |-> FreeId(secondary[p])]
    /\ pc = [c \in Procs |-> "idle"]
    /\ kind = [c \in Procs |-> "none"]
    /\ main_cookies = [c \in Procs |-> <<>>]
    /\ task = [c \in Procs |-> [p \in QL_PANELS |-> NoTask]]
    /\ clean_results = [c \in Procs |-> [p \in QL_PANELS |-> NoResult]]
    /\ add_results = [c \in Procs |-> [p \in QL_PANELS |-> NoResult]]
    /\ total_deleted = [c \in Procs |-> 0]
    /\ success_count = [c \in Procs |-> 0]
    /\ log = [c \in Procs |-> {}]
    /\ calls = [c \in Procs |-> {}]
    /\ outcome = [c \in Procs |-> [p \in QL_PANELS |-> NoOutcome]]
    /\ fetched = [c \in Procs |-> NoFetch]
    /\ before = [c \in Procs |-> [p \in QL_PANELS |-> {}]]
    /\ overlapped = [c \in Procs |-> FALSE]
    /\ order = [c \in Procs |-> 0]
    /\ started = 0
    /\ failuresLeft = budget
    /\ prev = NoPrev
    /\ reply = Reply("none", 0, {})

\* A configuration whose panel entries have their keys, with one operator.
WellFormed == [valid |-> TRUE, users |-> 1]

\* The configuration the passes read, and no pass has run.
InitExc(configs) ==
    /\ \E cfg \in configs : panels_valid = cfg.valid /\ tg_users = cfg.users
    /\ notices = [c \in Procs |-> <<>>]
    /\ pass_exc = [c \in Procs |-> "none"]

\* The cache keys of the default configuration.
CURRENT_IP_KEY == "current_ip"

\* The CK hash kept under the key of the IP.
SharedKey == "current_ip"

CURRENT_CK_HASH_KEY == "current_ck_hash"

\* One redis_client.get or redis_client.set, by the job that made it.
CacheAccess(job, op, key, ok) == [job |-> job, op |-> op, key |-> key, ok |-> ok]

\* await redis_client.set(key, v); ok is whether the cache took the write.
CacheSet(job, key, v, ok) ==
    /\ redis_ip' = IF ok /\ key = CURRENT_IP_KEY THEN v ELSE redis_ip
    /\ redis_ck_hash' = IF ok /\ key = CURRENT_CK_HASH_KEY THEN v ELSE redis_ck_hash
    /\ cache_log' = cache_log \cup {CacheAccess(job, "set", key, ok)}

\* await redis_client.get(key)
CacheGet(job, key, ok) ==
    /\ cache_log' = cache_log \cup {CacheAccess(job, "get", key, ok)}
    /\ UNCHANGED redis_ck_hash

\* The file at CONFIG['CK_FILE_PATH'] does not exist.
NoFile == << "<absent>" >>

InitCk(files) ==
    /\ ck_pc = "idle"
    /\ ck_caller = "loop"
    /\ ck_cookies = <<>>
    /\ ck_file \in files
    /\ ck_log = {}
    /\ ck_file0 = ck_file
    /\ ck_hash0 = None
    /\ redis_ck_hash = None
    /\ cache_log = {}

(* ------------------------------------------------------------------ *)
(* sync_ck_to_panels and the '/ql clean' cleanup                        *)
(* ------------------------------------------------------------------ *)

\* A request may fail only while the failure budget lasts.
MayEnd(o) == o = "ok" \/ failuresLeft > 0

Count(o) == failuresLeft' = IF o = "ok" THEN failuresLeft ELSE failuresLeft - 1

\* How a request through _request/safe_request can end.
ListOutcomes == {"ok", "no_token", "transport"}
DeleteOutcomes == {"ok", "app_error", "transport"}
AddOutcomes == {"ok", "no_token", "app_error", "transport"}

Running(d) == pc[d] \in {"clean", "add"}

\* Whether the caller may start a pass now.  The periodic loop and the
\* command handler each run one pass at a time; nothing keeps the two apart.
CanStart(c, exclusive) ==
    /\ pc[c] = "idle"
    /\ started < MaxPasses
    /\ exclusive => \A d \in Procs : pc[d] = "idle"

\* The fresh per-pass state of caller c (new QingLongAPI instances, no token).
ResetPass(c, k, o, cookies, running) ==
    /\ kind' = [kind EXCEPT ![c] = k]
    /\ main_cookies' = [main_cookies EXCEPT ![c] = cookies]
    /\ task' = [task EXCEPT ![c] =
                  [p \in QL_PANELS |-> [NoTask EXCEPT !.st = IF running THEN "list" ELSE "idle"]]]
    /\ clean_results' = [clean_results EXCEPT ![c] = [p \in QL_PANELS |-> NoResult]]
    /\ add_results' = [add_results EXCEPT ![c] = [p \in QL_PANELS |-> NoResult]]
    /\ total_deleted' = [total_deleted EXCEPT ![c] = 0]
    /\ success_count' = [success_count EXCEPT ![c] = 0]
    /\ calls' = [calls EXCEPT ![c] = {}]
    /\ outcome' = [outcome EXCEPT ![c] = [p \in QL_PANELS |-> NoOutcome]]
    /\ fetched' = [fetched EXCEPT ![c] = [o |-> o, data |-> primary]]
    /\ before' = [before EXCEPT ![c] = secondary]
    /\ overlapped' = [d \in Procs |->
                        IF running /\ \E e \in Procs \ {c} : Running(e)
                        THEN (d = c \/ Running(d) \/ overlapped[d])
                        ELSE (d # c /\ overlapped[d])]
    /\ order' = [order EXCEPT ![c] = started + 1]
    /\ started' = started + 1

\* "if not main_cookies_with_remarks: ... return"
AbortNever(cookies) == FALSE

Abort(cookies) == cookies = <<>>

\* notify with a list of `users` operators, ok being those a message can be
\* sent to: the operators are tried in order and the first message that is
\* sent ends the loop.
FirstOf(S) == CHOOSE u \in S : \A v \in S : u <= v

notify_every_user(title, message, users, ok) ==
    [title |-> title, message |-> message, tried |-> 1..users, delivered |-> ok]

notify(title, message, users, ok) ==
    [title |-> title, message |-> message,
     tried |-> IF ok = {} THEN 1..users ELSE 1..FirstOf(ok),
     delivered |-> IF ok = {} THEN {} ELSE {FirstOf(ok)}]

\* What becomes of an exception raised in sync_ck_to_panels' try block.
PassHandlerReraises(e) == "propagated"

PassHandler(e) == "caught"

\* sync_ck_to_panels, steps 1 and 2: fetch the primary's enabled cookies
\* (a failed fetch yields the empty list), abort when there are none, make the
\* panels' clients.  An entry of QL_PANELS without one of its keys raises
\* KeyError there, which the pass's except clause logs and notifies.
StartSync(c, exclusive) ==
    /\ CanStart(c, exclusive)
    /\ \E o \in ListOutcomes :
        LET cookies == IF o = "ok" THEN EnabledWithRemarks(primary) ELSE <<>>
            raises  == ~Abort(cookies) /\ ~panels_valid
        IN  /\ MayEnd(o)
            /\ Count(o)
            /\ ResetPass(c, "sync", o, cookies, ~Abort(cookies) /\ ~raises)
            /\ IF Abort(cookies)
               THEN /\ pc' = [pc EXCEPT ![c] = "done"]
                    /\ log' = [log EXCEPT ![c] = {"warn_no_main_ck"}]
               ELSE IF raises
               THEN /\ pc' = [pc EXCEPT ![c] = "done"]
                    /\ log' = [log EXCEPT ![c] = {"info_main_ck", "error_sync_failed"}]
               ELSE /\ pc' = [pc EXCEPT ![c] = "clean"]
                    /\ log' = [log EXCEPT ![c] = {"info_main_ck"}]
            /\ IF raises
               THEN /\ pass_exc' = [pass_exc EXCEPT ![c] = PassHandler("KeyError")]
                    /\ \E ok \in SUBSET (1..tg_users) :
                          notices' = [notices EXCEPT ![c] =
                                        << notify("sync_failed", "KeyError", tg_users, ok) >>]
               ELSE /\ pass_exc' = [pass_exc EXCEPT ![c] = "none"]
                    /\ notices' = [notices EXCEPT ![c] = <<>>]
    /\ reply' = IF c = "manual" THEN Reply("running", 0, {}) ELSE reply
    /\ UNCHANGED << otherVars, cacheVars, ipVars, panelVars, prev, panels_valid, tg_users >>

\* manage_ql_cookies, cmd == "clean": the same clean_panel on every panel.
\* An entry of QL_PANELS without one of its keys raises KeyError while the
\* clients are made, and the command's except clause edits the reply.
StartClean(c, exclusive) ==
    /\ c = "manual"
    /\ CanStart(c, exclusive)
    /\ IF panels_valid
       THEN /\ ResetPass(c, "clean", "none", <<>>, TRUE)
            /\ pc' = [pc EXCEPT ![c] = "clean"]
            /\ log' = [log EXCEPT ![c] = {}]
            /\ reply' = Reply("processing", 0, {})
       ELSE /\ reply' = Reply("failed", 0, {})
            /\ UNCHANGED << startVars, pc, task, clean_results, add_results, total_deleted,
                            success_count, log, calls, outcome, overlapped >>
    /\ UNCHANGED << otherVars, excVars, cacheVars, ipVars, panelVars, failuresLeft, prev >>

CleanResult(ok, msg, n) == [success |-> ok, message |-> msg, deleted_count |-> n]

\* clean_panel up to the delete request: get_all_cookies and the partition.
CleanList(c, p) ==
    /\ pc[c] = "clean"
    /\ task[c][p].st = "list"
    /\ \E o \in ListOutcomes :
        LET cookies_info == IF o = "ok" THEN AllCookies(secondary[p]) ELSE {}
            to_delete_ids == ToDeleteIds(cookies_info)
            result == IF cookies_info = {} THEN CleanResult(TRUE, "no_ck", 0)
                      ELSE CleanResult(TRUE, "nothing_to_delete", 0)
            finished == cookies_info = {} \/ to_delete_ids = {}
        IN  /\ MayEnd(o)
            /\ Count(o)
            /\ task' = [task EXCEPT ![c][p] =
                          [st |-> IF finished THEN "cleaned" ELSE "delete",
                           token |-> o # "no_token",
                           cookies_info |-> cookies_info,
                           to_delete_ids |-> to_delete_ids]]
            /\ clean_results' = [clean_results EXCEPT ![c][p] =
                                   IF finished THEN result ELSE @]
            /\ calls' = [calls EXCEPT ![c] =
                           IF o = "no_token" THEN @
                           ELSE @ \cup {[panel |-> p, op |-> "list", arg |-> {}]}]
            /\ outcome' = [outcome EXCEPT ![c][p].list = o]
    /\ UNCHANGED << otherVars, excVars, cacheVars, ipVars, reply, panelVars, startVars, pc, add_results, total_deleted,
                    success_count, log, overlapped, prev >>

\* The result clean_panel builds from delete_cookies' (success, message).
DeleteResultCounting(o, ids) ==
    CleanResult(o = "ok", "deleted", Cardinality(ids))

DeleteResult(o, ids) ==
    IF o = "ok" THEN CleanResult(TRUE, "deleted", Cardinality(ids))
    ELSE IF o = "app_error" THEN CleanResult(FALSE, "delete_failed", 0)
    ELSE CleanResult(FALSE, "delete_error", 0)

\* The panel the pass's client for entry p of QL_PANELS sends its requests
\* to: the client is made from that entry's url and credentials.
ClientOfMain(p) == "main"

ClientOf(p) == p

\* clean_panel's delete_cookies call and the result built from it.
CleanDelete(c, p) ==
    /\ pc[c] = "clean"
    /\ task[c][p].st = "delete"
    /\ \E o \in DeleteOutcomes :
        LET ids == task[c][p].to_delete_ids
            t   == ClientOf(p)
        IN  /\ MayEnd(o)
            /\ Count(o)
            /\ secondary' = IF o = "ok" /\ t \in QL_PANELS
                             THEN [secondary EXCEPT ![t] = PanelDelete(@, ids)]
                             ELSE secondary
            /\ primary' = IF o = "ok" /\ t \notin QL_PANELS
                           THEN SelectSeq(primary, LAMBDA r : r.id \notin ids)
                           ELSE primary
            /\ clean_results' = [clean_results EXCEPT ![c][p] = DeleteResult(o, ids)]
            /\ calls' = [calls EXCEPT ![c] =
                           @ \cup {[panel |-> t, op |-> "delete", arg |-> ids]}]
            /\ outcome' = [outcome EXCEPT ![c][p].delete = o]
    /\ task' = [task EXCEPT ![c][p].st = "cleaned"]
    /\ UNCHANGED << otherVars, excVars, cacheVars, ipVars, reply, nextId, startVars, pc, add_results, total_deleted,
                    success_count, log, overlapped, prev >>

\* asyncio.gather over the clean_panel tasks returns when every task has returned.
AnyCleaned(c) == \E p \in QL_PANELS : task[c][p].st = "cleaned"

\* A join that only a pass without a failed task gets through.
AllCleanedAndOk(c) ==
    \A p \in QL_PANELS : task[c][p].st = "cleaned" /\ clean_results[c][p].success

AllCleaned(c) == \A p \in QL_PANELS : task[c][p].st = "cleaned"

RECURSIVE SumDeleted(_, _)
SumDeleted(results, panels) ==
    IF panels = {} THEN 0
    ELSE LET p == CHOOSE q \in panels : TRUE
         IN  (IF results[p].success THEN results[p].deleted_count ELSE 0)
             + SumDeleted(results, panels \ {p})

\* The join after phase 1: total_deleted, then the add tasks are created
\* (sync) or the cleanup replies (clean).
\* An add task made only for the panels whose clean succeeded.
AfterCleanOnSuccess(result) == IF result.success THEN "add" ELSE "added"

\* The add tasks are made for every api of panel_apis, whatever its clean
\* result was.
AfterClean(result) == "add"

GatherClean(c) ==
    /\ pc[c] = "clean"
    /\ AllCleaned(c)
    /\ total_deleted' = [total_deleted EXCEPT ![c] = SumDeleted(clean_results[c], QL_PANELS)]
    /\ IF kind[c] = "sync"
       THEN /\ pc' = [pc EXCEPT ![c] = "add"]
            /\ task' = [task EXCEPT ![c] = [p \in QL_PANELS |->
                                   [@[p] EXCEPT !.st = AfterClean(clean_results[c][p])]]]
       ELSE /\ pc' = [pc EXCEPT ![c] = "done"]
            /\ task' = task
    /\ log' = [log EXCEPT ![c] = @ \cup {"info_cleaned"}]
    /\ UNCHANGED << otherVars, excVars, cacheVars, ipVars, reply, panelVars, startVars, clean_results, add_results, success_count,
                    calls, outcome, overlapped, failuresLeft, prev >>

\* The result add_cookies_to_panel builds from add_cookies' (success, message).
AddResult(o) ==
    IF o = "ok" THEN CleanResult(TRUE, "added", 0)
    ELSE IF o = "app_error" THEN CleanResult(FALSE, "add_failed", 0)
    ELSE CleanResult(FALSE, "add_error", 0)

\* add_cookies_to_panel: add_cookies with the primary's cookies.
AddCookies(c, p) ==
    /\ pc[c] = "add"
    /\ task[c][p].st = "add"
    /\ \E o \in AddOutcomes :
        /\ (o = "no_token") => ~task[c][p].token
        /\ MayEnd(o)
        /\ Count(o)
        /\ LET envs == AddBody(main_cookies[c])
               t    == ClientOf(p)
           IN  /\ secondary' = IF o = "ok" /\ t \in QL_PANELS
                                THEN [secondary EXCEPT ![t] = PanelAdd(@, nextId[t], envs)]
                                ELSE secondary
               /\ nextId' = IF o = "ok" /\ t \in QL_PANELS
                             THEN [nextId EXCEPT ![t] = @ + Len(envs)]
                             ELSE nextId
               /\ primary' = IF o = "ok" /\ t \notin QL_PANELS
                              THEN primary \o
                                   [i \in 1..Len(envs) |->
                                      Env(Len(primary) + i, envs[i].name, envs[i].value,
                                          envs[i].remarks, 0)]
                              ELSE primary
               /\ calls' = [calls EXCEPT ![c] =
                              IF o = "no_token" THEN @
                              ELSE @ \cup {[panel |-> t, op |-> "add", arg |-> envs]}]
        /\ add_results' = [add_results EXCEPT ![c][p] = AddResult(o)]
        /\ task' = [task EXCEPT ![c][p] = [@ EXCEPT !.st = "added",
                                                    !.token = (o # "no_token")]]
        /\ outcome' = [outcome EXCEPT ![c][p].add = o, ![c][p].adds = @ + 1]
    /\ UNCHANGED << otherVars, excVars, cacheVars, ipVars, reply, startVars, pc, clean_results, total_deleted,
                    success_count, log, overlapped, prev >>

\* The join after phase 2 and the final report.
GatherAdd(c) ==
    /\ pc[c] = "add"
    /\ \A p \in QL_PANELS : task[c][p].st = "added"
    /\ success_count' = [success_count EXCEPT ![c] =
                           Cardinality({p \in QL_PANELS : add_results[c][p].success})]
    /\ pc' = [pc EXCEPT ![c] = "done"]
    /\ log' = [log EXCEPT ![c] = @ \cup {"info_sync_done"}]
    /\ UNCHANGED << otherVars, excVars, cacheVars, ipVars, reply, panelVars, startVars, task, clean_results, add_results,
                    total_deleted, calls, outcome, overlapped, failuresLeft, prev >>

\* Whether every request of caller c's pass succeeded.
AllOk(c) ==
    \A p \in QL_PANELS :
        /\ outcome[c][p].list = "ok"
        /\ outcome[c][p].delete \in {"ok", "none"}
        /\ outcome[c][p].add = (IF kind[c] = "sync" THEN "ok" ELSE "none")

\* sync_ck_command's final reply: "completed" and the number of enabled
\* cookies get_enabled_cookies lists on the primary now ([] when it fails).
SyncReply(main_cookies_now) == Reply("completed", Len(main_cookies_now), {})

\* manage_ql_cookies' clean report: one line per panel and the total.
CleanReply(results) ==
    Reply("clean_report", SumDeleted(results, QL_PANELS),
          { [name |-> p, success |-> results[p].success, message |-> results[p].message] :
            p \in QL_PANELS })

\* The pass returns to its caller, its locals are gone, and the command
\* handler that called it edits its reply.
ReturnPass(c) ==
    /\ pc[c] = "done"
    /\ prev' = [kind |-> kind[c], main |-> main_cookies[c], ok |-> AllOk(c)]
    /\ pc' = [pc EXCEPT ![c] = "idle"]
    /\ kind' = [kind EXCEPT ![c] = "none"]
    /\ main_cookies' = [main_cookies EXCEPT ![c] = <<>>]
    /\ task' = [task EXCEPT ![c] = [p \in QL_PANELS |-> NoTask]]
    /\ clean_results' = [clean_results EXCEPT ![c] = [p \in QL_PANELS |-> NoResult]]
    /\ add_results' = [add_results EXCEPT ![c] = [p \in QL_PANELS |-> NoResult]]
    /\ total_deleted' = [total_deleted EXCEPT ![c] = 0]
    /\ success_count' = [success_count EXCEPT ![c] = 0]
    /\ log' = [log EXCEPT ![c] = {}]
    /\ calls' = [calls EXCEPT ![c] = {}]
    /\ outcome' = [outcome EXCEPT ![c] = [p \in QL_PANELS |-> NoOutcome]]
    /\ fetched' = [fetched EXCEPT ![c] = NoFetch]
    /\ before' = [before EXCEPT ![c] = [p \in QL_PANELS |-> {}]]
    /\ overlapped' = [overlapped EXCEPT ![c] = FALSE]
    /\ order' = [order EXCEPT ![c] = 0]
    /\ IF c = "manual" /\ kind[c] = "sync"
       THEN \E o \in ListOutcomes :
               /\ MayEnd(o)
               /\ Count(o)
               /\ reply' = SyncReply(IF o = "ok" THEN EnabledWithRemarks(primary) ELSE <<>>)
       ELSE /\ failuresLeft' = failuresLeft
            /\ reply' = IF c = "manual" THEN CleanReply(clean_results[c]) ELSE reply
    /\ UNCHANGED << otherVars, excVars, cacheVars, ipVars, panelVars, started >>

\* The primary panel's next edit by its operator.
Edited(data) ==
    IF data = PrimaryAB THEN PrimaryAC
    ELSE IF data = PrimaryAC THEN PrimaryNoneEnabled
    ELSE IF data = PrimaryNoneEnabled THEN <<>>
    ELSE PrimaryAB

\* The primary panel's records change while a pass is between its fetch and
\* its adds.  Only the fetch reads the primary, so an edit at any other moment
\* reaches the same states as one at the join; at most one edit per pass.
PrimaryChange ==
    /\ \E c \in Procs : /\ pc[c] = "clean"
                         /\ AllCleaned(c)
                         /\ primary = fetched[c].data
    /\ primary' = Edited(primary)
    /\ UNCHANGED << otherVars, excVars, cacheVars, ipVars, reply, secondary, nextId, startVars, pc, task, clean_results, add_results,
                    total_deleted, success_count, log, calls, outcome, overlapped,
                    failuresLeft, prev >>

PassStep(c) ==
    \/ \E p \in QL_PANELS : CleanList(c, p)
    \/ \E p \in QL_PANELS : CleanDelete(c, p)
    \/ GatherClean(c)
    \/ \E p \in QL_PANELS : AddCookies(c, p)
    \/ GatherAdd(c)
    \/ ReturnPass(c)

\* Passes one at a time, on a primary that changes.
NextSeq ==
    \/ \E c \in Procs : StartSync(c, TRUE) \/ StartClean(c, TRUE) \/ PassStep(c)
    \/ PrimaryChange

\* Passes of the periodic loop and of the '/syncck' command, overlapping freely.
NextOverlap ==
    \E c \in Procs : StartSync(c, FALSE) \/ PassStep(c)

(* ------------------------------------------------------------------ *)
(* update_ip_whitelist                                                   *)
(* ------------------------------------------------------------------ *)

InitIp(addresses, caches) ==
    /\ egress \in addresses
    /\ redis_ip \in caches
    /\ whitelist = IF redis_ip = NoIp THEN {} ELSE {redis_ip}
    /\ ip_pc = "idle"
    /\ current_ip = NoIp
    /\ old_ip = NoIp
    /\ ip_log = {}
    /\ ip_calls = <<>>
    /\ cache0 = redis_ip

\* periodic_task calls update_ip_whitelist.
IpStart ==
    /\ ip_pc = "idle"
    /\ ip_pc' = "detect"
    /\ current_ip' = NoIp
    /\ old_ip' = NoIp
    /\ ip_log' = {}
    /\ ip_calls' = <<>>
    /\ cache0' = redis_ip
    /\ UNCHANGED << otherVars, excVars, cacheVars, syncVars, egress, redis_ip, whitelist >>

\* current_ip = await get_current_ip(); None when the request failed.
IpDetect ==
    /\ ip_pc = "detect"
    /\ \E ok \in BOOLEAN :
        IF ok
        THEN /\ current_ip' = egress
             /\ ip_pc' = "get"
             /\ ip_log' = ip_log
        ELSE /\ current_ip' = NoIp
             /\ ip_pc' = "done"
             /\ ip_log' = ip_log \cup {"warn_detect_failed"}
    /\ UNCHANGED << otherVars, excVars, cacheVars, syncVars, egress, redis_ip, whitelist, old_ip, ip_calls, cache0 >>

\* old_ip = await redis_client.get(...); "if current_ip == old_ip: return"
IpGet ==
    /\ ip_pc = "get"
    /\ \E ok \in BOOLEAN :
        /\ CacheGet("ip", CURRENT_IP_KEY, ok)
        /\ IF ~ok
           THEN /\ ip_pc' = "done"
                /\ ip_log' = ip_log \cup {"error_exception"}
                /\ old_ip' = old_ip
           ELSE /\ old_ip' = redis_ip
                /\ IF current_ip = redis_ip
                   THEN /\ ip_pc' = "done"
                        /\ ip_log' = ip_log \cup {"info_unchanged"}
                   ELSE /\ ip_pc' = "add"
                        /\ ip_log' = ip_log \cup {"info_changed"}
    /\ UNCHANGED << otherVars, excVars, syncVars, egress, redis_ip, whitelist, current_ip,
                    ip_calls, cache0 >>

\* Where update_ip_whitelist goes after manage_whitelist('add', current_ip).
AfterAddAlways(add_success, old) == IF old # NoIp THEN "del" ELSE "set"

AfterAdd(add_success, old) ==
    IF add_success THEN (IF old # NoIp THEN "del" ELSE "set") ELSE "done"

\* add_success = await manage_whitelist('add', current_ip)
IpAdd ==
    /\ ip_pc = "add"
    /\ \E add_success \in BOOLEAN :
        /\ whitelist' = IF add_success THEN whitelist \cup {current_ip} ELSE whitelist
        /\ ip_calls' = Append(ip_calls, [op |-> "add", ip |-> current_ip, ok |-> add_success])
        /\ ip_pc' = AfterAdd(add_success, old_ip)
        /\ ip_log' = IF add_success THEN ip_log ELSE ip_log \cup {"error_add_failed"}
    /\ UNCHANGED << otherVars, excVars, cacheVars, syncVars, egress, redis_ip, current_ip, old_ip, cache0 >>

\* Where update_ip_whitelist goes after manage_whitelist('del', old_ip):
\* a failed removal is logged and nothing else.
AfterDelStops(del_success) == IF del_success THEN "set" ELSE "done"

AfterDel(del_success) == "set"

\* del_success = await manage_whitelist('del', old_ip)
IpDel ==
    /\ ip_pc = "del"
    /\ \E del_success \in BOOLEAN :
        /\ whitelist' = IF del_success THEN whitelist \ {old_ip} ELSE whitelist
        /\ ip_calls' = Append(ip_calls, [op |-> "del", ip |-> old_ip, ok |-> del_success])
        /\ ip_log' = IF del_success THEN ip_log ELSE ip_log \cup {"warn_del_failed"}
        /\ ip_pc' = AfterDel(del_success)
    /\ UNCHANGED << otherVars, excVars, cacheVars, syncVars, egress, redis_ip, current_ip, old_ip, cache0 >>

\* await redis_client.set(...), the notification and the final log line.
IpSet ==
    /\ ip_pc = "set"
    /\ \E ok \in BOOLEAN :
        /\ CacheSet("ip", CURRENT_IP_KEY, current_ip, ok)
        /\ ip_calls' = Append(ip_calls, [op |-> "set", ip |-> current_ip, ok |-> ok])
        /\ ip_log' = ip_log \cup {IF ok THEN "info_updated" ELSE "error_exception"}
    /\ ip_pc' = "done"
    /\ UNCHANGED << otherVars, excVars, syncVars, egress, whitelist, current_ip, old_ip, cache0 >>

\* update_ip_whitelist returns; the loop sleeps until the next check.
IpReturn ==
    /\ ip_pc = "done"
    /\ ip_pc' = "idle"
    /\ UNCHANGED << otherVars, excVars, cacheVars, syncVars, egress, redis_ip, whitelist, current_ip, old_ip, ip_log,
                    ip_calls, cache0 >>

\* The host's public IP changes.
EgressChange ==
    /\ egress' \in IPs \ {egress}
    /\ UNCHANGED << otherVars, excVars, cacheVars, syncVars, redis_ip, whitelist, ip_pc, current_ip, old_ip, ip_log,
                    ip_calls, cache0 >>

\* The steps of the check and of the loop that calls it.
IpJob == IpStart \/ IpDetect \/ IpGet \/ IpAdd \/ IpDel \/ IpSet \/ IpReturn

NextIp ==
    \/ IpStart
    \/ IpDetect
    \/ IpGet
    \/ IpAdd
    \/ IpDel
    \/ IpSet
    \/ IpReturn
    \/ EgressChange

(* ------------------------------------------------------------------ *)
(* update_ck and the '/getck' command                                    *)
(* ------------------------------------------------------------------ *)

\* The body of get_enabled_cookies on the panel's record list.
RECURSIVE get_enabled_cookies(_)
get_enabled_cookies(data) ==
    IF data = <<>> THEN <<>>
    ELSE LET item == Head(data)
             rest == get_enabled_cookies(Tail(data))
         IN  IF /\ item.status = 0
                /\ item.name = "JD_COOKIE"
                /\ PtKeyPart(item.value) # <<>>
                /\ PtPinPart(item.value) # <<>>
             THEN << NormalValue(item.value) >> \o rest
             ELSE rest

\* hashlib.sha256(json.dumps(cookies, sort_keys=True)...).hexdigest(): equal
\* lists have equal digests, different lists different ones.
sha256(cookies) == << "sha256", cookies >>

\* What neither the CK job nor the cache touches.
notCk == << syncVars, schedVars, reqVars, clientVars, fnVars, excVars >>

\* periodic_task calls update_ck, or the operator sends '/getck'.
CkStart ==
    /\ ck_pc = "idle"
    /\ ck_pc' = "fetch"
    /\ ck_caller' \in {"loop", "getck"}
    /\ ck_cookies' = <<>>
    /\ ck_log' = {}
    /\ ck_file0' = ck_file
    /\ ck_hash0' = redis_ck_hash
    /\ UNCHANGED << notCk, ipVars, cacheVars, ck_file >>

\* cookies = await ql_api.get_enabled_cookies(), [] when the request failed;
\* "if not cookies: return".
CkFetch ==
    /\ ck_pc = "fetch"
    /\ \E o \in ListOutcomes :
        /\ ck_cookies' = IF o = "ok" THEN get_enabled_cookies(primary) ELSE <<>>
        /\ IF ck_cookies' = <<>>
           THEN /\ ck_pc' = "done"
                /\ ck_log' = ck_log \cup {"warn_no_ck"}
           ELSE /\ ck_pc' = "save"
                /\ ck_log' = ck_log
    /\ UNCHANGED << notCk, ipVars, cacheVars, ck_caller, ck_file, ck_file0, ck_hash0 >>

\* A save that writes everything or leaves the file as it was.
SaveAllOrNothing(o, file, cookies) ==
    IF o = "ok" THEN {cookies} ELSE {file}

\* What the file holds when save_cookies_to_file ends in outcome o: the
\* joined lines; what it held, when makedirs or open raised; and a part of
\* the lines, possibly none, when open(path, 'w') had emptied the file and
\* the write raised.
FileAfterSave(o, file, cookies) ==
    IF o = "ok" THEN {cookies}
    ELSE IF o = "open_failed" THEN {file}
    ELSE { SubSeq(cookies, 1, k) : k \in 0..(Len(cookies) - 1) }

\* "if await save_cookies_to_file(cookies):"; a failed save is logged (and
\* the command's reply edited) and the hash is not written.
CkSave ==
    /\ ck_pc = "save"
    /\ \E o \in {"ok", "open_failed", "write_failed"} :
        /\ ck_file' \in FileAfterSave(o, ck_file, ck_cookies)
        /\ ck_pc' = IF o = "ok" THEN "set" ELSE "done"
        /\ ck_log' = ck_log \cup {IF o = "ok" THEN "info_saved" ELSE "error_save_failed"}
    /\ UNCHANGED << notCk, ipVars, cacheVars, ck_caller, ck_cookies, ck_file0, ck_hash0 >>

\* await redis_client.set(CONFIG['CURRENT_CK_HASH_KEY'], ck_hash); when it
\* raises, the except clause logs the error.
CkSet ==
    /\ ck_pc = "set"
    /\ \E ok \in BOOLEAN :
        /\ CacheSet("ck", CURRENT_CK_HASH_KEY, sha256(ck_cookies), ok)
        /\ ck_log' = ck_log \cup {IF ok THEN "info_updated" ELSE "error_exception"}
    /\ ck_pc' = "done"
    /\ UNCHANGED << notCk, egress, whitelist, ip_pc, current_ip, old_ip, ip_log, ip_calls,
                    cache0, ck_caller, ck_cookies, ck_file, ck_file0, ck_hash0 >>

\* The job returns.
CkReturn ==
    /\ ck_pc = "done"
    /\ ck_pc' = "idle"
    /\ UNCHANGED << notCk, ipVars, cacheVars, ck_caller, ck_cookies, ck_file, ck_log,
                    ck_file0, ck_hash0 >>

CkJob == CkStart \/ CkFetch \/ CkSave \/ CkSet \/ CkReturn

\* One check of the IP job, one run of the CK job, and the passes and
\* cleanups, their steps interleaved in every order.
NextJobs ==
    \/ IpStart \/ IpDetect \/ IpGet \/ IpAdd \/ IpDel \/ IpSet
    \/ CkStart \/ CkFetch \/ CkSave \/ CkSet
    \/ \E c \in Procs : StartSync(c, TRUE) \/ StartClean(c, TRUE) \/ PassStep(c)

(* ------------------------------------------------------------------ *)
(* run_task, periodic_task and schedule_daily_task                       *)
(* ------------------------------------------------------------------ *)

\* A wall-clock reading; days are counted from the day the model starts.
Time(d, h, m, sec, us) == [day |-> d, hour |-> h, minute |-> m, second |-> sec, micro |-> us]

\* A local that holds nothing yet.
NoTime == Time(-1, 0, 0, 0, 0)

\* Readings datetime.now may return, and targets of the daily job (main
\* schedules it at 23:59).
Times ==
    { Time(0, h, m, sec, us) : h \in {0, 23}, m \in {0, 59}, sec \in {0, 59}, us \in {0, 1} }

FewTimes == { Time(0, 0, 0, 0, 0), Time(0, 23, 59, 0, 1) }

Targets == { <<23, 59>>, <<0, 0>> }

\* Seconds since the start of day 0.
SecStamp(t) == ((t.day * 24 + t.hour) * 60 + t.minute) * 60 + t.second

\* a < b for two readings in one time zone.
Before(a, b) ==
    \/ SecStamp(a) < SecStamp(b)
    \/ SecStamp(a) = SecStamp(b) /\ a.micro < b.micro

\* a - b: a timedelta, normalised as Python does (0 <= micro < 1000000);
\* total_seconds() is seconds + micro / 1000000.
Minus(a, b) ==
    LET sec == SecStamp(a) - SecStamp(b)
        us == a.micro - b.micro
    IN  IF us < 0 THEN [seconds |-> sec - 1, micro |-> us + 1000000]
        ELSE [seconds |-> sec, micro |-> us]

\* next_run = now.replace(hour, minute, second=0, microsecond=0), moved to the
\* next day when it lies before now.
NextRunToday(t, hm) == Time(t.day, hm[1], hm[2], 0, 0)

NextRun(t, hm) ==
    LET today == Time(t.day, hm[1], hm[2], 0, 0)
    IN  IF Before(today, t) THEN [today EXCEPT !.day = @ + 1] ELSE today

\* run_task: what the caller of run_task sees when the job raised or returned.
run_task_reraises(raised) == IF raised THEN "raised" ELSE "returned"

run_task(raised) == "returned"

\* run_immediately of the three periodic_task loops of main.
RunImmediately(l) == l # "sync"

\* interval = interval_minutes * 60, with the intervals of the default
\* configuration.
Interval(l) ==
    60 * (IF l = "ck" THEN 20 ELSE IF l = "ip" THEN 5 ELSE 30)

NoEvent == [ev |-> "none", secs |-> 0]

\* Where periodic_task is once "if not run_immediately" is decided.
FirstStepAlwaysRuns(l) == "run"

FirstStep(l) == IF RunImmediately(l) THEN "run" ELSE "sleep"

InitSched(targets, budget) ==
    /\ loop_pc = [l \in Loops |-> IF l = "daily" THEN "compute" ELSE FirstStep(l)]
    /\ job_failed = [l \in Loops |-> FALSE]
    /\ sched_exc = FALSE
    /\ target \in targets
    /\ now = NoTime
    /\ next_run = NoTime
    /\ wait_seconds = Minus(NoTime, NoTime)
    /\ excLeft = budget
    /\ active = [l \in Periodic |-> 0]
    /\ last_event = [l \in Periodic |-> NoEvent]

\* The exception leaves the loop's coroutine: asyncio.gather re-raises it in
\* main, main returns and asyncio.run cancels every other loop.
LoopRaises == loop_pc' = [l \in Loops |-> "dead"]

\* periodic_task: run_task(task_func, name) is called and awaited.
PeriodicStart(l) ==
    /\ l \in Periodic
    /\ loop_pc[l] = "run"
    /\ loop_pc' = [loop_pc EXCEPT ![l] = "running"]
    /\ active' = [active EXCEPT ![l] = @ + 1]
    /\ UNCHANGED << notSched, job_failed, sched_exc, target, now, next_run, wait_seconds,
                    excLeft, last_event >>

\* periodic_task: await run_task(task_func, name) returns
PeriodicRun(l) ==
    /\ l \in Periodic
    /\ loop_pc[l] = "running"
    /\ \E raised \in BOOLEAN :
        /\ IF run_task(raised) = "raised"
           THEN LoopRaises
           ELSE loop_pc' = [loop_pc EXCEPT ![l] = "sleep"]
        /\ job_failed' = [job_failed EXCEPT ![l] = raised]
    /\ active' = [active EXCEPT ![l] = @ - 1]
    /\ last_event' = [last_event EXCEPT ![l] = [ev |-> "run", secs |-> 0]]
    /\ UNCHANGED << notSched, sched_exc, target, now, next_run, wait_seconds, excLeft >>

\* periodic_task: await asyncio.sleep(interval) returns
PeriodicSleep(l) ==
    /\ l \in Periodic
    /\ loop_pc[l] = "sleep"
    /\ loop_pc' = [loop_pc EXCEPT ![l] = "run"]
    /\ job_failed' = [job_failed EXCEPT ![l] = FALSE]
    /\ last_event' = [last_event EXCEPT ![l] = [ev |-> "sleep", secs |-> Interval(l)]]
    /\ UNCHANGED << notSched, sched_exc, target, now, next_run, wait_seconds, excLeft, active >>

\* schedule_daily_task: now, next_run and wait_seconds; an exception goes to
\* the loop's except clause.
DailyCompute(l, times) ==
    /\ l = "daily"
    /\ loop_pc[l] = "compute"
    /\ \E raised \in BOOLEAN :
        IF raised
        THEN /\ excLeft > 0
             /\ excLeft' = excLeft - 1
             /\ sched_exc' = TRUE
             /\ loop_pc' = [loop_pc EXCEPT ![l] = "fallback"]
             /\ UNCHANGED << now, next_run, wait_seconds >>
        ELSE /\ \E t \in times :
                /\ now' = t
                /\ next_run' = NextRun(t, target)
                /\ wait_seconds' = Minus(NextRun(t, target), t)
             /\ loop_pc' = [loop_pc EXCEPT ![l] = "wait"]
             /\ UNCHANGED << excLeft, sched_exc >>
    /\ UNCHANGED << notSched, job_failed, target, active, last_event >>

\* schedule_daily_task: await asyncio.sleep(wait_seconds)
DailyWait(l) ==
    /\ l = "daily"
    /\ loop_pc[l] = "wait"
    /\ \E raised \in BOOLEAN :
        IF raised
        THEN /\ excLeft > 0
             /\ excLeft' = excLeft - 1
             /\ sched_exc' = TRUE
             /\ loop_pc' = [loop_pc EXCEPT ![l] = "fallback"]
             /\ UNCHANGED job_failed
        ELSE /\ loop_pc' = [loop_pc EXCEPT ![l] = "run"]
             /\ job_failed' = [job_failed EXCEPT ![l] = FALSE]
             /\ sched_exc' = FALSE
             /\ UNCHANGED excLeft
    /\ UNCHANGED << notSched, target, now, next_run, wait_seconds, active, last_event >>

\* schedule_daily_task: await run_task(task_func, name)
DailyRun(l) ==
    /\ l = "daily"
    /\ loop_pc[l] = "run"
    /\ \E raised \in BOOLEAN :
        /\ IF run_task(raised) = "raised"
           THEN /\ loop_pc' = [loop_pc EXCEPT ![l] = "fallback"]
                /\ sched_exc' = TRUE
           ELSE /\ loop_pc' = [loop_pc EXCEPT ![l] = "compute"]
                /\ sched_exc' = sched_exc
        /\ job_failed' = [job_failed EXCEPT ![l] = raised]
    /\ UNCHANGED << notSched, target, now, next_run, wait_seconds, excLeft, active, last_event >>

\* schedule_daily_task's except clause: await asyncio.sleep(60) returns
DailyFallback(l) ==
    /\ l = "daily"
    /\ loop_pc[l] = "fallback"
    /\ loop_pc' = [loop_pc EXCEPT ![l] = "compute"]
    /\ UNCHANGED << notSched, job_failed, sched_exc, target, now, next_run,
                    wait_seconds, excLeft, active, last_event >>

LoopStep(l) ==
    \/ PeriodicStart(l)
    \/ PeriodicRun(l)
    \/ PeriodicSleep(l)
    \/ DailyCompute(l, FewTimes)
    \/ DailyWait(l)
    \/ DailyRun(l)
    \/ DailyFallback(l)

NextSched == \E l \in Loops : LoopStep(l)

\* The daily loop alone, over more readings of the clock.
NextDaily ==
    \/ DailyCompute("daily", Times)
    \/ DailyWait("daily")
    \/ DailyRun("daily")
    \/ DailyFallback("daily")

(* ------------------------------------------------------------------ *)
(* safe_request                                                          *)
(* ------------------------------------------------------------------ *)

\* How one attempt can end: a response, or one of the three except clauses.
AttemptErrors == {"HTTPStatusError", "RequestError", "Exception"}

InitReq ==
    /\ req_pc = "idle"
    /\ retries = 2
    /\ attempt = 0
    /\ req_trace = <<>>
    /\ req_result = "none"

\* A caller calls safe_request; retries is popped from the keyword arguments.
ReqCall ==
    /\ req_pc \in {"idle", "returned", "raised"}
    /\ retries' \in 0..MaxRetries
    /\ req_pc' = "loop"
    /\ attempt' = 0
    /\ req_trace' = <<>>
    /\ req_result' = "none"
    /\ UNCHANGED notReq

\* What an except clause does with the error of attempt number attempt.
AfterErrorSleeps(n, r) == "sleep"

AfterError(n, r) == IF n < r - 1 THEN "sleep" ELSE "raise"

\* One pass through the body of "for attempt in range(retries)" up to the
\* return, the raise or the sleep.
ReqAttempt ==
    /\ req_pc = "loop"
    /\ attempt < retries
    /\ \E o \in {"ok"} \cup AttemptErrors :
        /\ req_trace' = Append(req_trace, o)
        /\ IF o = "ok"
           THEN req_pc' = "returned" /\ req_result' = "value"
           ELSE IF AfterError(attempt, retries) = "sleep"
           THEN req_pc' = "sleep" /\ req_result' = req_result
           ELSE req_pc' = "raised" /\ req_result' = o
    /\ UNCHANGED << notReq, retries, attempt >>

\* await asyncio.sleep(1) returns and the loop goes to the next attempt.
ReqSleep ==
    /\ req_pc = "sleep"
    /\ req_trace' = Append(req_trace, "sleep_1s")
    /\ attempt' = attempt + 1
    /\ req_pc' = "loop"
    /\ UNCHANGED << notReq, retries, req_result >>

\* The loop is over without a return or a raise: "return None".
ReqLoopEnd ==
    /\ req_pc = "loop"
    /\ attempt >= retries
    /\ req_pc' = "returned"
    /\ req_result' = "None"
    /\ UNCHANGED << notReq, retries, attempt, req_trace >>

NextReq == ReqCall \/ ReqAttempt \/ ReqSleep \/ ReqLoopEnd

(* ------------------------------------------------------------------ *)
(* One QingLongAPI client and the requests it sends                      *)
(* ------------------------------------------------------------------ *)

\* self.token of a client that holds none.
NoToken == "None"

\* f'Bearer {token}'
Bearer(token) == << "Bearer", token >>

\* The operations that need the panel's authorisation.
Protected == {"list", "add", "delete"}

\* safe_request's default number of attempts.
DefaultRetries == 2

\* The ids a delete_cookies call is given and the records an add_cookies call
\* is given (by the ids the panel will store them under).
DeleteArgs == {{}, {1}, {1, 2}}

AddArgs == {{}, {3}}

NoOp == [op |-> "none", arg |-> {}]

Repeat(x, n) == [i \in 1..n |-> x]

\* The number of requests safe_request sends when its first `fails` attempts
\* fail: every failed attempt but the last allowed one is followed by another.
Sends(fails, r) == IF fails < r THEN fails + 1 ELSE r

\* __init__: a new client holds no token.
InitClient ==
    /\ cl_token = NoToken
    /\ cl_sent = <<>>
    /\ cl_result = "none"
    /\ cl_calls = 0
    /\ cl_op = NoOp
    /\ cl_panel = {1, 2}

\* get_token: the cached token, or a safe_request for a token whose first
\* `fails` attempts fail; granted is whether the answer carries a token.  A
\* failed request leaves self.token as it was (None).
get_token(token, fails, granted) ==
    IF token # NoToken THEN [token |-> token, sent |-> <<>>]
    ELSE [token |-> IF fails < DefaultRetries /\ granted THEN "tok" ELSE NoToken,
          sent |-> Repeat([op |-> "token", auth |-> <<>>], Sends(fails, DefaultRetries))]

\* "if not cookie_ids" and "if not cookies_info": nothing is sent for an
\* empty argument.
IsEmptyNever(arg) == FALSE

IsEmpty(arg) == arg = {}

\* get_all_cookies and add_cookies: one call through _request, which raises
\* ValueError when get_token gave nothing; the operation catches it.  The
\* request goes through safe_request with the default number of attempts.
ClientRequest(op, arg) ==
    /\ op \in {"list", "add"}
    /\ cl_calls < MaxClientCalls
    /\ cl_calls' = cl_calls + 1
    /\ cl_op' = [op |-> op, arg |-> arg]
    /\ IF op = "add" /\ IsEmpty(arg)
       THEN /\ cl_result' = "ok"
            /\ UNCHANGED << cl_token, cl_sent, cl_panel >>
       ELSE \E tokFails \in 0..DefaultRetries, granted \in BOOLEAN,
               fails \in 0..DefaultRetries, app_ok \in BOOLEAN :
            LET got == get_token(cl_token, tokFails, granted)
                r   == IF fails >= DefaultRetries THEN "transport"
                       ELSE IF op = "add" /\ ~app_ok THEN "app_error" ELSE "ok"
            IN  /\ cl_token' = got.token
                /\ IF got.token = NoToken
                   THEN /\ cl_sent' = cl_sent \o got.sent
                        /\ cl_result' = "ValueError"
                        /\ cl_panel' = cl_panel
                   ELSE /\ cl_sent' = cl_sent \o got.sent
                                        \o Repeat([op |-> op, auth |-> Bearer(got.token)],
                                                  Sends(fails, DefaultRetries))
                        /\ cl_result' = r
                        /\ cl_panel' = IF op = "add" /\ r = "ok"
                                       THEN cl_panel \cup arg ELSE cl_panel
    /\ UNCHANGED notClient

\* delete_cookies: its own httpx request with f'Bearer {self.token}', sent
\* once; a panel answers a request without a valid token with an error status,
\* which raise_for_status raises.
ClientDelete(ids) ==
    /\ cl_calls < MaxClientCalls
    /\ cl_calls' = cl_calls + 1
    /\ cl_op' = [op |-> "delete", arg |-> ids]
    /\ IF IsEmpty(ids)
       THEN /\ cl_result' = "ok"
            /\ UNCHANGED << cl_sent, cl_panel >>
       ELSE \E o \in {"ok", "app_error", "http_error", "transport"} :
            /\ (cl_token = NoToken) => (o = "http_error")
            /\ cl_result' = o
            /\ cl_sent' = Append(cl_sent, [op |-> "delete", auth |-> Bearer(cl_token)])
            /\ cl_panel' = IF o = "ok" THEN cl_panel \ ids ELSE cl_panel
    /\ UNCHANGED << notClient, cl_token >>

\* The caller makes a new client for the panel.
ClientNew ==
    /\ cl_sent # <<>>
    /\ cl_token' = NoToken
    /\ cl_sent' = <<>>
    /\ cl_result' = "none"
    /\ cl_op' = [op |-> "new", arg |-> {}]
    /\ UNCHANGED << notClient, cl_calls, cl_panel >>

NextClient ==
    \/ \E arg \in AddArgs : ClientRequest("add", arg)
    \/ ClientRequest("list", {})
    \/ \E ids \in DeleteArgs : ClientDelete(ids)
    \/ ClientNew

(* ------------------------------------------------------------------ *)
(* The parsing helpers on one string                                     *)
(* ------------------------------------------------------------------ *)

\* The tokens of the strings: the four the code looks for and two runs of
\* ordinary characters.
Alphabet == {"pt_key=", "pt_pin=", ";", " ", "C", "k"}

\* The strings of at most n tokens.
Strings(n) == UNION { [1..m -> Alphabet] : m \in 0..n }

InitFn(inputs) ==
    /\ fn_input \in inputs
    /\ fn_parsed = {}
    /\ fn_normal = <<>>
    /\ fn_pin = None
    /\ fn_preserved = FALSE
    /\ fn_done = {}

\* A panel lists one enabled JD_COOKIE record with the string as its value:
\* get_all_cookies and get_enabled_cookies_with_remarks on that list, and
\* clean_panel's extract_pt_pin(cookie['pt_pin']) on each listed cookie.
ParseValue ==
    /\ fn_input # None
    /\ "parse" \notin fn_done
    /\ LET item == Env(1, "JD_COOKIE", fn_input, "", 0)
           listed == AllCookies({item})
       IN  /\ fn_parsed' = listed
           /\ fn_normal' = EnabledWithRemarks(<< item >>)
           /\ fn_pin' = IF listed = {} THEN None
                        ELSE extract_pt_pin((CHOOSE c \in listed : TRUE).pt_pin)
    /\ fn_done' = fn_done \cup {"parse"}
    /\ UNCHANGED << notFn, fn_input, fn_preserved >>

\* should_preserve_cookie on the string.
PreserveTest ==
    /\ "preserve" \notin fn_done
    /\ fn_preserved' = should_preserve_cookie(fn_input)
    /\ fn_done' = fn_done \cup {"preserve"}
    /\ UNCHANGED << notFn, fn_input, fn_parsed, fn_normal, fn_pin >>

NextFn == ParseValue \/ PreserveTest

(* ------------------------------------------------------------------ *)
(* Specifications                                                       *)
(* ------------------------------------------------------------------ *)

\* Reconciliation passes and cleanups, one at a time.
InitSeq ==
    /\ InitPanels(PrimaryStates, SecondaryStates, MaxFailures)
    /\ InitIp({"10.0.0.1"}, {NoIp})
    /\ InitSched({<<23, 59>>}, 0)
    /\ InitReq
    /\ InitClient
    /\ InitCk({NoFile})
    /\ InitExc({WellFormed})
    /\ InitFn({ck("k1", "A")})

SpecSeq == InitSeq /\ [][NextSeq]_vars

\* Passes one at a time, under a configuration whose panel entries may lack
\* a key and that names up to MaxUsers operators.
InitRaise ==
    /\ InitPanels(PrimaryStates, SecondaryStates, MaxFailures)
    /\ InitIp({"10.0.0.1"}, {NoIp})
    /\ InitSched({<<23, 59>>}, 0)
    /\ InitReq
    /\ InitClient
    /\ InitCk({NoFile})
    /\ InitExc({WellFormed} \cup { [valid |-> FALSE, users |-> u] : u \in 0..MaxUsers })
    /\ InitFn({ck("k1", "A")})

SpecRaise == InitRaise /\ [][NextSeq]_vars

\* Reconciliation passes that overlap.
InitOverlap ==
    /\ InitPanels(PrimaryStates, SecondaryStates, MaxOverlapFailures)
    /\ InitIp({"10.0.0.1"}, {NoIp})
    /\ InitSched({<<23, 59>>}, 0)
    /\ InitReq
    /\ InitClient
    /\ InitCk({NoFile})
    /\ InitExc({WellFormed})
    /\ InitFn({ck("k1", "A")})

SpecOverlap == InitOverlap /\ [][NextOverlap]_vars

\* Overlapping passes, from one enabled cookie on the primary and empty
\* secondary panels, when every HTTP call of a running pass returns or
\* fails: the event loop resumes each task of each pass whose awaited call
\* has ended.
InitOverlapFair ==
    /\ InitPanels({<< Env(1, "JD_COOKIE", ck("k1", "A"), "x", 0) >>},
                  {[p \in QL_PANELS |-> {}]}, MaxOverlapFailures)
    /\ InitIp({"10.0.0.1"}, {NoIp})
    /\ InitSched({<<23, 59>>}, 0)
    /\ InitReq
    /\ InitClient
    /\ InitCk({NoFile})
    /\ InitExc({WellFormed})
    /\ InitFn({ck("k1", "A")})

SpecOverlapFair ==
    InitOverlapFair /\ [][NextOverlap]_vars /\ \A c \in Procs : WF_vars(PassStep(c))

\* The IP change-detection job on its own.
InitIpOnly ==
    /\ InitPanels({PrimaryAB}, {[p \in QL_PANELS |-> SecondaryAC]}, 0)
    /\ InitIp(IPs, IPs \cup {NoIp})
    /\ InitSched({<<23, 59>>}, 0)
    /\ InitReq
    /\ InitClient
    /\ InitCk({NoFile})
    /\ InitExc({WellFormed})
    /\ InitFn({ck("k1", "A")})

SpecIp == InitIpOnly /\ [][NextIp]_vars

\* The same under the scheduling of periodic_task: the loop calls the check
\* again and again, and every await of a check returns or raises.
SpecIpFair == SpecIp /\ WF_vars(IpJob)

\* The IP job, the CK job and the passes side by side, or the CK job on its
\* own: configs are the pairs of a cached IP and a credentials file.
InitJobs(primaries, caches, files) ==
    /\ InitPanels(primaries, {[p \in QL_PANELS |-> SecondaryAC]}, 0)
    /\ InitIp({"10.0.0.1"}, caches)
    /\ InitSched({<<23, 59>>}, 0)
    /\ InitReq
    /\ InitClient
    /\ InitCk(files)
    /\ InitExc({WellFormed})
    /\ InitFn({ck("k1", "A")})

InitSideBySide == InitJobs({PrimaryAB}, {"10.0.0.2"}, {NoFile})

SpecJobs == InitSideBySide /\ [][NextJobs]_vars

InitCkOnly == InitJobs(PrimaryStates, {NoIp}, {NoFile, << ck("k0", "A") >>})

\* The CK job again and again.
SpecCk == InitCkOnly /\ [][CkJob]_vars

\* The scheduler loops on their own.  Every await of a loop returns or raises:
\* each loop that can take a step eventually takes one.
InitSchedOnly ==
    /\ InitPanels({PrimaryAB}, {[p \in QL_PANELS |-> SecondaryAC]}, 0)
    /\ InitIp({"10.0.0.1"}, {NoIp})
    /\ InitSched({<<23, 59>>}, MaxSchedExceptions)
    /\ InitReq
    /\ InitClient
    /\ InitCk({NoFile})
    /\ InitExc({WellFormed})
    /\ InitFn({ck("k1", "A")})

SpecSched ==
    InitSchedOnly /\ [][NextSched]_vars /\ \A l \in Loops : WF_vars(LoopStep(l))

\* safe_request on its own.
InitReqOnly ==
    /\ InitPanels({PrimaryAB}, {[p \in QL_PANELS |-> SecondaryAC]}, 0)
    /\ InitIp({"10.0.0.1"}, {NoIp})
    /\ InitSched({<<23, 59>>}, 0)
    /\ InitReq
    /\ InitClient
    /\ InitCk({NoFile})
    /\ InitExc({WellFormed})
    /\ InitFn({ck("k1", "A")})

SpecReq == InitReqOnly /\ [][NextReq]_vars

\* One panel client on its own, its operations called in any order.
InitClientOnly ==
    /\ InitPanels({PrimaryAB}, {[p \in QL_PANELS |-> SecondaryAC]}, 0)
    /\ InitIp({"10.0.0.1"}, {NoIp})
    /\ InitSched({<<23, 59>>}, 0)
    /\ InitReq
    /\ InitClient
    /\ InitCk({NoFile})
    /\ InitExc({WellFormed})
    /\ InitFn({ck("k1", "A")})

SpecClient == InitClientOnly /\ [][NextClient]_vars

\* The parsing helpers on every string of at most MaxLen tokens, and on None.
InitFnOnly ==
    /\ InitPanels({PrimaryAB}, {[p \in QL_PANELS |-> SecondaryAC]}, 0)
    /\ InitIp({"10.0.0.1"}, {NoIp})
    /\ InitSched({<<23, 59>>}, 0)
    /\ InitReq
    /\ InitClient
    /\ InitCk({NoFile})
    /\ InitExc({WellFormed})
    /\ InitFn(Strings(MaxLen) \cup {None})

SpecFn == InitFnOnly /\ [][NextFn]_vars

\* The daily scheduler on its own.
InitDaily ==
    /\ InitPanels({PrimaryAB}, {[p \in QL_PANELS |-> SecondaryAC]}, 0)
    /\ InitIp({"10.0.0.1"}, {NoIp})
    /\ InitSched(Targets, MaxSchedExceptions)
    /\ InitReq
    /\ InitClient
    /\ InitCk({NoFile})
    /\ InitExc({WellFormed})
    /\ InitFn({ck("k1", "A")})

SpecDaily == InitDaily /\ [][NextDaily]_vars

(* ------------------------------------------------------------------ *)
(* Vocabulary of the claims                                             *)
(* ------------------------------------------------------------------ *)

\* The token that follows the first tok in value ("" when there is none).
TokenAfter(value, tok) ==
    IF \E i \in 1..(Len(value) - 1) : value[i] = tok
    THEN value[1 + CHOOSE i \in 1..(Len(value) - 1) :
                      value[i] = tok /\ \A j \in 1..(i - 1) : value[j] # tok]
    ELSE ""

IdentityKey(value) == TokenAfter(value, "pt_pin=")

SecretMaterial(value) == TokenAfter(value, "pt_key=")

\* The identity-keys of the preservation set.
PreservedKeys ==
    { PRESERVED_PT_PINS[i][j] :
        i \in 1..Len(PRESERVED_PT_PINS), j \in 1..2 } \ {"pt_pin=", ";"}

IsPreserved(r) == IdentityKey(r.value) \in PreservedKeys

\* A record a listing returns as a credential: of the credential type, with
\* both fields.
IsCredential(r) ==
    /\ r.name = "JD_COOKIE"
    /\ SecretMaterial(r.value) # ""
    /\ IdentityKey(r.value) # ""

\* The primary's enabled credentials, in the panel's order.
EnabledCredentials(data) ==
    SelectSeq(data, LAMBDA r : r.status = 0 /\ IsCredential(r))

\* Record r holds credential e's two fields and annotation.
Carries(r, e) ==
    /\ r.name = "JD_COOKIE"
    /\ IdentityKey(r.value) = IdentityKey(e.value)
    /\ SecretMaterial(r.value) = SecretMaterial(e.value)
    /\ r.remarks = e.remarks

\* A reconciliation pass that went past the primary fetch.
NotAborted(c) == kind[c] = "sync" /\ pc[c] # "idle" /\ main_cookies[c] # <<>>

\* A finished reconciliation pass all of whose requests succeeded.
Settled(c) == NotAborted(c) /\ pc[c] = "done" /\ AllOk(c)

DeleteCalls(c) == { d \in calls[c] : d.op = "delete" }

AddCalls(c) == { a \in calls[c] : a.op = "add" }

\* The records the pass added to panel p are one per enabled credential of
\* the primary as fetched, each with the primary's annotation.
AddedOnePerCredential(c, p) ==
    LET e == EnabledCredentials(fetched[c].data)
        new == secondary[p] \ before[c][p]
    IN  /\ Cardinality(new) = Len(e)
        /\ \A i \in 1..Len(e) : Cardinality({ r \in new : Carries(r, e[i]) }) = 1

\* Two record sets hold the same records, remote identifiers aside.
ContentOf(r) == [name |-> r.name, value |-> r.value, remarks |-> r.remarks,
                 status |-> r.status]

SameContent(S, T) ==
    \A x \in { ContentOf(r) : r \in S \cup T } :
        Cardinality({ r \in S : ContentOf(r) = x })
            = Cardinality({ r \in T : ContentOf(r) = x })

(* ------------------------------------------------------------------ *)
(* C1                                                                   *)
(* ------------------------------------------------------------------ *)

\* The primary yields no enabled credential: the fetch failed, or no record
\* of the primary is an enabled credential.
YieldsNothing(c) ==
    \/ fetched[c].o # "ok"
    \/ EnabledCredentials(fetched[c].data) = <<>>

\* C1: a reconciliation pass whose primary fetch yields no enabled credential
\* (the fetch failing included) sends no list, delete or add request to any
\* secondary panel, leaves every secondary as it was, logs the warning and is
\* over.
C1_EmptyPrimaryAborts ==
    \A c \in Procs :
        (kind[c] = "sync" /\ YieldsNothing(c)) =>
            /\ pc[c] = "done"
            /\ calls[c] = {}
            /\ log[c] = {"warn_no_main_ck"}
            /\ secondary = before[c]
            /\ \A p \in QL_PANELS : task[c][p].st = "idle" /\ outcome[c][p] = NoOutcome

C1_Witness ==
    \E c \in Procs :
        /\ kind[c] = "sync"
        /\ pc[c] = "done"
        /\ fetched[c].o = "ok"
        /\ fetched[c].data = PrimaryNoneEnabled
        /\ \E p \in QL_PANELS : secondary[p] # {}

(* ------------------------------------------------------------------ *)
(* C2                                                                   *)
(* ------------------------------------------------------------------ *)

\* C2: in every reconciliation pass and every cleanup, of any sequence of
\* passes, the ids given to a panel's delete call are exactly the remote ids
\* of the listed records whose identity-key is not preserved; no record with a
\* preserved identity-key, held by the panel before or now, has its id among
\* them.
C2_DeleteExactlyNonPreserved ==
    \A c \in Procs : \A d \in DeleteCalls(c) :
        /\ d.arg = { k.id : k \in { x \in task[c][d.panel].cookies_info :
                                      IdentityKey(x.value) \notin PreservedKeys } }
        /\ d.arg = { r.id : r \in { x \in before[c][d.panel] :
                                      IsCredential(x) /\ ~IsPreserved(x) } }
        /\ \A r \in before[c][d.panel] \cup secondary[d.panel] :
              IsPreserved(r) => r.id \notin d.arg

C2_Witness ==
    \E c \in Procs : \E d \in DeleteCalls(c) :
        /\ started = MaxPasses
        /\ d.arg # {}
        /\ \E r \in before[c][d.panel] : IsPreserved(r) /\ r.id >= 5

(* ------------------------------------------------------------------ *)
(* C3                                                                   *)
(* ------------------------------------------------------------------ *)

\* C3: every add request of a pass carries exactly the primary's enabled
\* credentials as fetched at the start of the pass, in order, each with its
\* annotation, and is the same for every secondary panel.
C3_AddArgIsPrimarySnapshot ==
    \A c \in Procs : \A a \in AddCalls(c) :
        LET e == EnabledCredentials(fetched[c].data)
        IN  /\ fetched[c].o = "ok"
            /\ Len(a.arg) = Len(e)
            /\ Len(e) > 0
            /\ \A i \in 1..Len(e) : Carries(a.arg[i], e[i])
            /\ \A b \in AddCalls(c) : b.arg = a.arg

C3_Witness ==
    \E c \in Procs :
        /\ { a.panel : a \in AddCalls(c) } = QL_PANELS
        /\ primary # fetched[c].data
        /\ before[c]["p1"] # before[c]["p2"]

(* ------------------------------------------------------------------ *)
(* C4                                                                   *)
(* ------------------------------------------------------------------ *)

\* C4: once a pass has an add task or has sent an add request, the phase-1
\* task of every secondary panel has returned its result.
C4_AddAfterEveryClean ==
    \A c \in Procs :
        ((\E p \in QL_PANELS : task[c][p].st \in {"add", "added"}) \/ AddCalls(c) # {}) =>
            \A q \in QL_PANELS :
                /\ clean_results[c][q].message # "pending"
                /\ outcome[c][q].list # "none"
                /\ task[c][q].st \in {"add", "added"}

C4_Witness ==
    \E c \in Procs :
        /\ AddCalls(c) # {}
        /\ \E q \in QL_PANELS : ~clean_results[c][q].success
        /\ \E q \in QL_PANELS : clean_results[c][q].success

(* ------------------------------------------------------------------ *)
(* C5                                                                   *)
(* ------------------------------------------------------------------ *)

\* The number of records the pass removed from panel q.
Removed(c, q) == Cardinality({ r \in before[c][q] : r \notin secondary[q] })

RECURSIVE SumRemoved(_, _)
SumRemoved(c, panels) ==
    IF panels = {} THEN 0
    ELSE LET q == CHOOSE x \in panels : TRUE
         IN  Removed(c, q) + SumRemoved(c, panels \ {q})

\* C5: a panel whose delete call hit a transport failure is reported with
\* success false, a failure message and count 0; the total after the join is
\* the number of records really removed from the panels whose delete
\* succeeded; and a finished pass has run the add on every panel.
C5_DeleteFailureIsolated ==
    \A c \in Procs :
        /\ \A p \in QL_PANELS :
              outcome[c][p].delete = "transport" =>
                  /\ ~clean_results[c][p].success
                  /\ clean_results[c][p].message = "delete_error"
                  /\ clean_results[c][p].deleted_count = 0
        /\ \A p \in QL_PANELS :
              outcome[c][p].delete = "ok" =>
                  /\ clean_results[c][p].success
                  /\ clean_results[c][p].deleted_count = Removed(c, p)
        /\ (pc[c] \in {"add", "done"} /\ (NotAborted(c) \/ kind[c] = "clean")) =>
              total_deleted[c] = SumRemoved(c, QL_PANELS)
        /\ (pc[c] = "done" /\ NotAborted(c)) =>
              \A q \in QL_PANELS :
                  /\ outcome[c][q].add # "none"
                  /\ add_results[c][q].message # "pending"

C5_Witness ==
    \E c \in Procs : \E p, q \in QL_PANELS :
        /\ pc[c] = "done"
        /\ NotAborted(c)
        /\ outcome[c][p].delete = "transport"
        /\ outcome[c][q].delete = "ok"
        /\ outcome[c][q].add = "ok"
        /\ outcome[c][p].add = "ok"
        /\ total_deleted[c] > 0

(* ------------------------------------------------------------------ *)
(* C6                                                                   *)
(* ------------------------------------------------------------------ *)

\* C6 as stated: after a pass all of whose requests succeeded, the records of
\* the credential type a secondary kept are exactly those with a preserved
\* identity-key, every other one is gone, and the added ones are one per
\* credential of the primary.
C6_Original ==
    \A c \in Procs : Settled(c) =>
        \A p \in QL_PANELS :
            /\ { r \in secondary[p] \cap before[c][p] : r.name = "JD_COOKIE" }
                   = { r \in before[c][p] : r.name = "JD_COOKIE" /\ IsPreserved(r) }
            /\ AddedOnePerCredential(c, p)

\* C6, amended: after a pass all of whose requests succeeded, the records a
\* secondary kept are exactly those with a preserved identity-key and those
\* the listing skips (another type, or a field missing), unchanged; every
\* listed record whose identity-key is not preserved is gone; and the added
\* ones are one per credential of the primary, with the primary's annotation.
C6_KeptAndAdded ==
    \A c \in Procs : Settled(c) =>
        \A p \in QL_PANELS :
            /\ secondary[p] \cap before[c][p]
                   = { r \in before[c][p] : IsPreserved(r) \/ ~IsCredential(r) }
            /\ AddedOnePerCredential(c, p)

C6_Witness ==
    \E c \in Procs : \E p \in QL_PANELS :
        /\ Settled(c)
        /\ before[c][p] = SecondaryMixed
        /\ \E r \in before[c][p] : r \notin secondary[p]
        /\ \E r \in secondary[p] \cap before[c][p] : ~IsCredential(r) /\ ~IsPreserved(r)

(* ------------------------------------------------------------------ *)
(* C7                                                                   *)
(* ------------------------------------------------------------------ *)

\* Two credential records of one panel with the same identity-key and
\* different secret-material.
Conflicting(records) ==
    \E r1, r2 \in { r \in records : IsCredential(r) } :
        /\ IdentityKey(r1.value) = IdentityKey(r2.value)
        /\ SecretMaterial(r1.value) # SecretMaterial(r2.value)

\* C7 as stated: during and at the end of a reconciliation pass, whatever the
\* list and delete calls returned, no secondary panel holds two records for
\* one identity-key with different secret-material.
C7_NoConflictingRecords ==
    \A c \in Procs : NotAborted(c) =>
        \A p \in QL_PANELS : ~Conflicting(before[c][p]) => ~Conflicting(secondary[p])

(* ------------------------------------------------------------------ *)
(* C8                                                                   *)
(* ------------------------------------------------------------------ *)

\* C8 as stated: a pass all of whose requests succeeded, run right after
\* another such pass that fetched the same credentials, leaves every secondary
\* with the records it already had.
C8_SecondPassChangesNothing ==
    \A c \in Procs :
        (Settled(c) /\ prev.kind = "sync" /\ prev.ok /\ prev.main = main_cookies[c]) =>
            \A p \in QL_PANELS : SameContent(secondary[p], before[c][p])

(* ------------------------------------------------------------------ *)
(* C9                                                                   *)
(* ------------------------------------------------------------------ *)

\* What one pass alone makes of a panel's records.
SinglePass(records, cookies) ==
    PanelAdd(PanelDelete(records, ToDeleteIds(AllCookies(records))),
             FreeId(records), AddBody(cookies))

\* C9 as stated: two passes that overlapped, fetched the same credentials and
\* had every request succeed leave every secondary as one pass alone would.
\* Stated for a primary none of whose credentials is preserved, where a second
\* pass run after the first changes nothing.
C9_OverlapSameAsSinglePass ==
    \A c, d \in Procs :
        ( /\ c # d
          /\ Settled(c) /\ Settled(d)
          /\ overlapped[c] /\ overlapped[d]
          /\ order[c] < order[d]
          /\ main_cookies[c] = main_cookies[d]
          /\ \A i \in 1..Len(main_cookies[c]) :
                IdentityKey(main_cookies[c][i].value) \notin PreservedKeys ) =>
            \A p \in QL_PANELS :
                SameContent(secondary[p], SinglePass(before[c][p], main_cookies[c]))

(* ------------------------------------------------------------------ *)
(* C10                                                                  *)
(* ------------------------------------------------------------------ *)

\* The IP job is past its comparison and found the IP changed.
IpChanged == ip_pc \in {"add", "del", "set"} \/ ip_calls # <<>>

\* C10: the calls of one check are, in order, the add of the new IP, the
\* removal of the old IP and the cache write of the new IP; the removal and
\* the write come only after an add that succeeded; a failed add ends the
\* check with no removal and the cache as it was; a check that failed to
\* detect the IP or found it unchanged makes no call and leaves the cache
\* as it was.
C10_AddFirstThenRemoveAndCache ==
    /\ \A i \in 1..Len(ip_calls) :
          /\ (i = 1) <=> (ip_calls[i].op = "add")
          /\ ip_calls[i].op = "add" => ip_calls[i].ip = current_ip /\ current_ip # cache0
          /\ ip_calls[i].op \in {"del", "set"} => ip_calls[1].ok
          /\ ip_calls[i].op = "del" => i = 2 /\ ip_calls[i].ip = cache0 /\ cache0 # NoIp
          /\ ip_calls[i].op = "set" => i = Len(ip_calls) /\ ip_calls[i].ip = current_ip
    /\ (ip_pc \in {"del", "set"}) => (ip_calls # <<>> /\ ip_calls[1].ok)
    /\ (ip_calls # <<>> /\ ~ip_calls[1].ok) =>
          Len(ip_calls) = 1 /\ redis_ip = cache0 /\ ip_pc \in {"done", "idle"}
    /\ (redis_ip # cache0) =>
          /\ ip_calls # <<>>
          /\ ip_calls[Len(ip_calls)] = [op |-> "set", ip |-> redis_ip, ok |-> TRUE]
    /\ ("warn_detect_failed" \in ip_log \/ "info_unchanged" \in ip_log) =>
          ip_calls = <<>> /\ redis_ip = cache0

C10_Witness ==
    /\ ip_pc = "done"
    /\ Len(ip_calls) = 3
    /\ ip_calls[2] = [op |-> "del", ip |-> cache0, ok |-> FALSE]
    /\ redis_ip = current_ip
    /\ redis_ip # cache0

(* ------------------------------------------------------------------ *)
(* C11                                                                  *)
(* ------------------------------------------------------------------ *)

\* The running check added the new IP and then failed to remove the old one.
AddedButNotRemoved ==
    /\ Len(ip_calls) >= 2
    /\ ip_calls[1] = [op |-> "add", ip |-> current_ip, ok |-> TRUE]
    /\ ip_calls[2] = [op |-> "del", ip |-> cache0, ok |-> FALSE]

\* C11: when the add of the new IP succeeded and the removal of the old IP
\* failed, a warning is logged, the new IP stays in the allowlist, and the IP job
\* goes on to write the new IP to the cache: it does not end before that write,
\* and once the write has returned the cache holds the new IP.
C11_FailedRemovalDoesNotBlock ==
    AddedButNotRemoved =>
        /\ "warn_del_failed" \in ip_log
        /\ current_ip \in whitelist
        /\ ip_pc \in {"set", "done", "idle"}
        /\ ip_pc \in {"done", "idle"} =>
              /\ Len(ip_calls) = 3
              /\ ip_calls[3].op = "set" /\ ip_calls[3].ip = current_ip
              /\ ip_calls[3].ok => redis_ip = current_ip

C11_Witness ==
    /\ AddedButNotRemoved
    /\ ip_pc = "done"
    /\ cache0 \in whitelist
    /\ redis_ip = current_ip
    /\ redis_ip # cache0

(* ------------------------------------------------------------------ *)
(* C12                                                                  *)
(* ------------------------------------------------------------------ *)

\* C12: no scheduler loop ever ends, whatever its job invocations raise and
\* whatever the daily loop's computing and sleeping raise; the daily loop goes
\* from an exception it caught to its fallback sleep; and every loop whose job
\* failed, or that caught an exception, invokes its job again.
C12_LoopsNeverEnd ==
    /\ [](\A l \in Loops : loop_pc[l] # "dead")
    /\ [][(~sched_exc /\ sched_exc') => loop_pc'["daily"] = "fallback"]_vars
    /\ \A l \in Loops : job_failed[l] ~> (loop_pc[l] = "run")
    /\ sched_exc ~> (loop_pc["daily"] = "run")

C12_Witness ==
    /\ job_failed["ip"] /\ loop_pc["ip"] = "sleep"
    /\ job_failed["daily"] /\ sched_exc /\ loop_pc["daily"] = "fallback"
    /\ loop_pc["ck"] = "run"
    /\ excLeft = 0

(* ------------------------------------------------------------------ *)
(* C13                                                                  *)
(* ------------------------------------------------------------------ *)

\* Today's target time of day lies before the reading t.
TargetPassed(t, hm) ==
    \/ hm[1] < t.hour
    \/ hm[1] = t.hour /\ hm[2] < t.minute
    \/ hm[1] = t.hour /\ hm[2] = t.minute /\ (t.second > 0 \/ t.micro > 0)

SecondOfDay(t) == t.hour * 3600 + t.minute * 60 + t.second

\* Reading a is not earlier than reading b.
NotEarlier(a, b) ==
    \/ a.day > b.day
    \/ a.day = b.day /\ ~TargetPassed(b, <<a.hour, a.minute>>)

\* C13: the next-run time the daily scheduler computes is the target time of
\* day, never earlier than the current time, on the following day when the
\* target has passed today and today otherwise; the wait is never negative
\* and is the time from the current time to the next run.
C13_NextRunNeverInThePast ==
    (now # NoTime) =>
        /\ next_run.hour = target[1] /\ next_run.minute = target[2]
        /\ next_run.second = 0 /\ next_run.micro = 0
        /\ NotEarlier(next_run, now)
        /\ next_run.day = (IF TargetPassed(now, target) THEN now.day + 1 ELSE now.day)
        /\ wait_seconds.seconds >= 0 /\ wait_seconds.micro \in 0..999999
        /\ LET us == now.micro + wait_seconds.micro
               carry == IF us = 1000000 THEN 1 ELSE 0
           IN  /\ us \in {0, 1000000}
               /\ SecondOfDay(now) + wait_seconds.seconds + carry
                      = (next_run.day - now.day) * 86400 + SecondOfDay(next_run)

C13_Witness ==
    /\ loop_pc["daily"] = "wait"
    /\ target = <<23, 59>>
    /\ now = Time(0, 23, 59, 0, 1)
    /\ next_run = Time(1, 23, 59, 0, 0)
    /\ wait_seconds = [seconds |-> 86399, micro |-> 999999]

(* ------------------------------------------------------------------ *)
(* C14                                                                  *)
(* ------------------------------------------------------------------ *)

\* The attempts among the events of the running call.
AttemptsMade == { i \in 1..Len(req_trace) : req_trace[i] # "sleep_1s" }

FailedAt(i) == req_trace[i] \in AttemptErrors

\* C14: a call of safe_request makes at most retries attempts; a successful
\* attempt is the last event of the call, which returns its result; the
\* 1-second sleep comes only after a failed attempt and is followed by another
\* attempt; once the last allowed attempt has failed the call raises that
\* attempt's error, and only then; it never returns after a failed attempt.
C14_BoundedRetriesThenRaise ==
    LET n == Len(req_trace)
    IN  /\ Cardinality(AttemptsMade) <= retries
        /\ \A i \in 1..n :
              /\ req_trace[i] = "ok" =>
                    i = n /\ req_pc = "returned" /\ req_result = "value"
              /\ req_trace[i] = "sleep_1s" =>
                    /\ i > 1 /\ FailedAt(i - 1)
                    /\ i < n => req_trace[i + 1] # "sleep_1s"
                    /\ i = n => req_pc = "loop" /\ Cardinality(AttemptsMade) < retries
              /\ (FailedAt(i) /\ i < n) => req_trace[i + 1] = "sleep_1s"
        /\ (n > 0 /\ FailedAt(n)) =>
              /\ req_pc \in {"sleep", "raised"}
              /\ (req_pc = "raised") <=> (Cardinality(AttemptsMade) = retries)
        /\ req_pc = "raised" => n > 0 /\ req_result = req_trace[n] /\ FailedAt(n)
        /\ req_pc = "returned" =>
              \/ n > 0 /\ req_trace[n] = "ok" /\ req_result = "value"
              \/ n = 0 /\ retries = 0 /\ req_result = "None"

C14_Witness ==
    /\ req_pc = "raised"
    /\ retries = 2
    /\ req_trace = << "RequestError", "sleep_1s", "HTTPStatusError" >>
    /\ req_result = "HTTPStatusError"

(* ------------------------------------------------------------------ *)
(* C15                                                                  *)
(* ------------------------------------------------------------------ *)

\* C15 as stated: a client that holds no token sends no protected request:
\* every list, add and delete request the client sent carries a token the
\* panel granted.
C15_NoTokenNoProtectedRequest ==
    \A i \in 1..Len(cl_sent) :
        cl_sent[i].op \in Protected => cl_sent[i].auth # Bearer(NoToken)

(* ------------------------------------------------------------------ *)
(* C16                                                                  *)
(* ------------------------------------------------------------------ *)

\* C16 as stated: in a reconciliation pass, a panel whose listing failed (no
\* token, or a transport failure) has a phase-1 outcome record with
\* success = false and a failure message.
C16_FailedListIsFailedPanel ==
    \A c \in Procs : \A p \in QL_PANELS :
        (kind[c] = "sync" /\ outcome[c][p].list \in {"no_token", "transport"}) =>
            /\ ~clean_results[c][p].success
            /\ clean_results[c][p].message \notin {"pending", "no_ck"}

(* ------------------------------------------------------------------ *)
(* C17                                                                  *)
(* ------------------------------------------------------------------ *)

\* The operator's reconciliation was aborted, or a delete or an add of it failed.
ManualPassFailed ==
    /\ kind["manual"] = "sync"
    /\ pc["manual"] = "done"
    /\ \/ main_cookies["manual"] = <<>>
       \/ \E p \in QL_PANELS : outcome["manual"][p].delete \in {"app_error", "transport"}
       \/ \E p \in QL_PANELS : outcome["manual"][p].add # "ok"

\* C17 as stated: when the operator's reconciliation was aborted, or a delete
\* or an add failed on some panel, the reply the handler leaves does not say
\* just "completed": it is another text or it has a line for a failed panel.
C17_ReplyReflectsFailures ==
    [][ (ManualPassFailed /\ pc'["manual"] = "idle") =>
            \/ reply'.text # "completed"
            \/ \E line \in reply'.panels : ~line.success ]_vars

(* ------------------------------------------------------------------ *)
(* C18                                                                  *)
(* ------------------------------------------------------------------ *)

\* The string holds the field somewhere among its ';'-separated parts.
HasField(str, field) == \E i \in 1..Len(str) : str[i] = field

\* part is one ';'-separated part of str, white space at its ends aside.
IsPartOf(part, str) ==
    /\ ~HasField(part, ";")
    /\ \E i \in 0..Len(str), j \in 0..Len(str) :
          /\ i <= j
          /\ (i = 0 \/ str[i] = ";")
          /\ (j = Len(str) \/ str[j + 1] = ";")
          /\ strip(SubSeq(str, i + 1, j), " ") = part

\* C18: a string with both the pt_key= and the pt_pin= field among its parts
\* is listed as one credential: its value kept whole, its pt_pin the part with
\* the identity-key field, its identity key without the field name, and its
\* normal form made of exactly the two parts "<pt_key part>;<pt_pin part>;".
\* A string that lacks either field is listed as nothing.
C18_ParsesBothFieldsOrNothing ==
    ("parse" \in fn_done) =>
        IF HasField(fn_input, "pt_key=") /\ HasField(fn_input, "pt_pin=")
        THEN /\ Cardinality(fn_parsed) = 1
             /\ \A e \in fn_parsed :
                   /\ e.value = fn_input
                   /\ HasField(e.pt_pin, "pt_pin=") /\ IsPartOf(e.pt_pin, fn_input)
                   /\ fn_pin = SelectSeq(e.pt_pin, LAMBDA t : t # "pt_pin=")
             /\ Len(fn_normal) = 1
             /\ \E k, q \in { SubSeq(fn_input, i, j) : i, j \in 1..Len(fn_input) } :
                   /\ HasField(k, "pt_key=") /\ IsPartOf(k, fn_input)
                   /\ HasField(q, "pt_pin=") /\ IsPartOf(q, fn_input)
                   /\ fn_normal[1].value = k \o << ";" >> \o q \o << ";" >>
        ELSE /\ fn_parsed = {}
             /\ fn_normal = <<>>
             /\ fn_pin = None

C18_Witness ==
    /\ "parse" \in fn_done
    /\ fn_input = << "pt_key=", "k", ";", "pt_pin=", "C" >>
    /\ fn_parsed # {}
    /\ fn_pin = << "C" >>
    /\ fn_normal[1].value = << "pt_key=", "k", ";", "pt_pin=", "C", ";" >>

(* ------------------------------------------------------------------ *)
(* C19                                                                  *)
(* ------------------------------------------------------------------ *)

\* A key or a preservation entry without its "pt_pin=" prefix and its
\* trailing ";".
NormalKey(str) ==
    LET a == IF str # <<>> /\ Head(str) = "pt_pin=" THEN Tail(str) ELSE str
    IN  IF a # <<>> /\ a[Len(a)] = ";" THEN SubSeq(a, 1, Len(a) - 1) ELSE a

\* C19 as stated: the preservation test is true exactly of the non-null,
\* non-empty identity keys that, normalised, equal a normalised entry of the
\* preservation set; so it is true of "pt_pin=C;" and of "C" alike when the
\* set holds "pt_pin=C;".
C19_PreservationNormalizesBothSides ==
    ("preserve" \in fn_done) =>
        fn_preserved =
            ( /\ fn_input # None
              /\ fn_input # <<>>
              /\ \E i \in 1..Len(PRESERVED_PT_PINS) :
                    NormalKey(fn_input) = NormalKey(PRESERVED_PT_PINS[i]) )

(* ------------------------------------------------------------------ *)
(* C20                                                                  *)
(* ------------------------------------------------------------------ *)

\* The panels whose phase 1 of caller c's pass failed.
FailedInPhaseOne(c) ==
    { p \in QL_PANELS :
        outcome[c][p].list \notin {"ok", "none"} \/ outcome[c][p].delete \notin {"ok", "none"} }

\* C20: add is never invoked twice on a panel in one pass, and a pass that
\* was not aborted and has finished has invoked it once on every configured
\* secondary panel, the panels whose list or delete failed included.
C20_AddOnceOnEveryPanel ==
    \A c \in Procs : \A p \in QL_PANELS :
        /\ outcome[c][p].adds <= 1
        /\ (NotAborted(c) /\ pc[c] = "done") => outcome[c][p].adds = 1

C20_Witness ==
    \E c \in Procs :
        /\ NotAborted(c)
        /\ pc[c] = "done"
        /\ \E p \in FailedInPhaseOne(c) : outcome[c][p].delete \notin {"ok", "none"}
        /\ \E p \in FailedInPhaseOne(c) : outcome[c][p].list # "ok"
        /\ \A p \in QL_PANELS : outcome[c][p].adds = 1

(* ------------------------------------------------------------------ *)
(* C21                                                                  *)
(* ------------------------------------------------------------------ *)

\* The requests a step of the client adds to those it sent before.
NewlySent == SubSeq(cl_sent', Len(cl_sent) + 1, Len(cl_sent'))

NewlySentOf(op) == { i \in 1..Len(NewlySent) : NewlySent[i].op = op }

\* C21 as stated: a delete is reported as failed by a transport failure only
\* after its request was sent twice (the default number of attempts).
C21_DeleteIsRetried ==
    [][ (cl_op'.op = "delete" /\ cl_calls' # cl_calls /\ cl_result' = "transport")
            => Cardinality(NewlySentOf("delete")) = 2 ]_vars

(* ------------------------------------------------------------------ *)
(* C22                                                                  *)
(* ------------------------------------------------------------------ *)

\* A step in which a list, add or delete with something to send is called on
\* the client.
ProtectedCall ==
    /\ cl_calls' # cl_calls
    /\ cl_op'.op \in Protected
    /\ (cl_op'.op = "list" \/ cl_op'.arg # {})

\* The client asked for a token before, and holds none.
TokenRefused == \E i \in 1..Len(cl_sent) : cl_sent[i].op = "token"

\* C22 as stated: on one client, a token once obtained stays and no later
\* operation asks for a token again; and after a token request that gave no
\* token, the next protected call on the client asks for one again.
C22_TokenCachedFailureNotCached ==
    [][ /\ (cl_token # NoToken /\ cl_op'.op # "new") =>
              (cl_token' = cl_token /\ NewlySentOf("token") = {})
        /\ (cl_token = NoToken /\ TokenRefused /\ ProtectedCall)
              => NewlySentOf("token") # {} ]_vars

(* ------------------------------------------------------------------ *)
(* C23                                                                  *)
(* ------------------------------------------------------------------ *)

\* C23: a delete with no ids and an add with no credentials report success,
\* send nothing and leave the panel's records as they were.
C23_EmptyArgumentIsNoOp ==
    [][ (cl_calls' # cl_calls /\ cl_op'.op \in {"add", "delete"} /\ cl_op'.arg = {})
            => /\ cl_result' = "ok"
               /\ cl_sent' = cl_sent
               /\ cl_panel' = cl_panel ]_vars

C23_Witness ==
    /\ cl_op = [op |-> "delete", arg |-> {}]
    /\ cl_result = "ok"
    /\ cl_token = NoToken
    /\ cl_sent # <<>>
    /\ cl_panel = {1, 2}

(* ------------------------------------------------------------------ *)
(* C24                                                                  *)
(* ------------------------------------------------------------------ *)

\* The loop main starts with the deferred first run.
Deferred(l) == l = "sync"

FullSleep(l) == [ev |-> "sleep", secs |-> Interval(l)]

\* C24: a fixed-interval loop has at most one job run in flight; a run starts
\* only when no run is in flight and the loop's last await was a sleep of the
\* full interval, or, for a loop without the deferred first run, when nothing
\* was awaited yet; and a sleep follows a run, or, for the loop with the
\* deferred first run, comes first.
C24_OneSleepBetweenRuns ==
    /\ [](\A l \in Periodic : active[l] <= 1)
    /\ [][ \A l \in Periodic :
            /\ (active'[l] > active[l]) =>
                  /\ active[l] = 0
                  /\ \/ last_event[l] = FullSleep(l)
                     \/ last_event[l].ev = "none" /\ ~Deferred(l)
            /\ (loop_pc[l] = "sleep" /\ loop_pc'[l] # "sleep") =>
                  /\ last_event'[l] = FullSleep(l)
                  /\ \/ last_event[l].ev = "run"
                     \/ last_event[l].ev = "none" /\ Deferred(l) ]_vars

C24_Witness ==
    /\ last_event["sync"].ev = "run" /\ loop_pc["sync"] = "sleep"
    /\ last_event["ip"].ev = "sleep" /\ loop_pc["ip"] = "running"
    /\ last_event["ck"].ev = "none" /\ loop_pc["ck"] = "running"

(* ------------------------------------------------------------------ *)
(* C25                                                                  *)
(* ------------------------------------------------------------------ *)

\* The listing of the primary's enabled credentials names exactly the
\* credentials e, in order, with their annotations.
ListsExactly(listing, e) ==
    /\ Len(listing) = Len(e)
    /\ \A i \in 1..Len(e) :
        /\ IdentityKey(listing[i].value) = IdentityKey(e[i].value)
        /\ SecretMaterial(listing[i].value) = SecretMaterial(e[i].value)
        /\ listing[i].remarks = e[i].remarks

\* C25: a listing whose request succeeded returns, without the disabled
\* records, exactly the enabled records of the credential type that have both
\* fields, and, with the disabled records, exactly the records of the
\* credential type that have both fields, enabled or not, each with its own
\* status; the records of another type or without both fields are in neither.
C25_ListingFiltersAndSkips ==
    \A c \in Procs :
        /\ (kind[c] = "sync" /\ pc[c] # "idle" /\ fetched[c].o = "ok") =>
              ListsExactly(main_cookies[c], EnabledCredentials(fetched[c].data))
        /\ \A p \in QL_PANELS :
              (pc[c] # "idle" /\ outcome[c][p].list = "ok") =>
                  /\ { k.id : k \in task[c][p].cookies_info }
                        = { r.id : r \in { x \in before[c][p] : IsCredential(x) } }
                  /\ \A k \in task[c][p].cookies_info :
                        \E r \in before[c][p] :
                            r.id = k.id /\ r.value = k.value /\ r.status = k.status

C25_Witness ==
    \E c \in Procs :
        /\ kind[c] = "sync" /\ fetched[c].o = "ok" /\ Len(main_cookies[c]) = 2
        /\ outcome[c]["p1"].list = "ok"
        /\ before[c]["p1"] = SecondaryMixed
        /\ { k.id : k \in task[c]["p1"].cookies_info } = {1, 2}
        /\ \E k \in task[c]["p1"].cookies_info : k.status = 1

(* ------------------------------------------------------------------ *)
(* C26                                                                  *)
(* ------------------------------------------------------------------ *)

\* The pass of caller c met an exception outside every panel task.
PassRaised(c) == pc[c] = "done" /\ pass_exc[c] # "none"

\* C26: an exception at the level of the pass is caught there and never
\* reaches the pass's caller; it is logged, and notify is called once with the
\* error text, which sends the message to one operator (the first one it can
\* be sent to) and to no second one.  A pass without such an exception
\* notifies nobody.
C26_PassExceptionCaughtLoggedNotified ==
    \A c \in Procs :
        /\ pass_exc[c] # "propagated"
        /\ PassRaised(c) =>
              /\ "error_sync_failed" \in log[c]
              /\ Len(notices[c]) = 1
              /\ notices[c][1].message = "KeyError"
              /\ Cardinality(notices[c][1].delivered) <= 1
              /\ (notices[c][1].delivered = {}) => notices[c][1].tried = 1..tg_users
        /\ (pc[c] # "idle" /\ pass_exc[c] = "none") => notices[c] = <<>>

C26_Witness ==
    /\ PassRaised("manual")
    /\ tg_users = 2
    /\ notices["manual"][1].tried = {1, 2}
    /\ notices["manual"][1].delivered = {2}
    /\ fetched["manual"].o = "ok"

(* ------------------------------------------------------------------ *)
(* C28                                                                  *)
(* ------------------------------------------------------------------ *)

\* The running or last check ended with a failed add of x, or made a failed
\* removal of x.
FailedAdd(x) == ip_calls = << [op |-> "add", ip |-> x, ok |-> FALSE] >>

FailedRemoval(x) ==
    \E i \in 1..Len(ip_calls) : ip_calls[i] = [op |-> "del", ip |-> x, ok |-> FALSE]

\* A check that read the egress IP and the cached IP has ended.
Compared == ip_pc = "done" /\ (ip_log \cap {"info_unchanged", "info_changed"}) # {}

\* C28 as stated: as long as checks keep reading the egress IP and the cache,
\* an add of x that failed leads to another add of x (unless the egress IP is
\* no longer x), and a removal of x that failed leads to another removal of
\* x (unless x has left the allowlist, or is the egress IP again and so no
\* longer stale).
C28_FailedOperationsRetried ==
    ([]<>Compared) =>
        \A x \in IPs :
            /\ FailedAdd(x) ~> (egress # x \/ (ip_pc = "add" /\ current_ip = x))
            /\ FailedRemoval(x) ~>
                    (x \notin whitelist \/ egress = x \/ (ip_pc = "del" /\ old_ip = x))

(* ------------------------------------------------------------------ *)
(* C29                                                                  *)
(* ------------------------------------------------------------------ *)

\* The cached IP was written by the job.
JobWroteCache ==
    \E e \in cache_log : e.job = "ip" /\ e.op = "set" /\ e.key = CURRENT_IP_KEY /\ e.ok

\* C29 as stated: between checks, a cached IP that the job wrote is in the
\* allowlist.
C29_CachedIpIsAllowlisted ==
    (ip_pc = "idle" /\ JobWroteCache) => redis_ip \in whitelist

(* ------------------------------------------------------------------ *)
(* C30                                                                  *)
(* ------------------------------------------------------------------ *)

\* The step ends a run of the CK job that fetched nothing or failed to save.
EndsUnsaved ==
    /\ ck_pc # "done"
    /\ ck_pc' = "done"
    /\ ck_cookies' = <<>> \/ "error_save_failed" \in ck_log'

\* C30 as stated: the cached CK hash changes only when a non-empty list was
\* fetched and the file holds it, and a run that fetched nothing or failed
\* to save ends with the file and the cached hash as they were when it
\* started.
C30_HashOnlyAfterSavedFetch ==
    [][ /\ (redis_ck_hash' # redis_ck_hash) =>
            (ck_cookies # <<>> /\ ck_file = ck_cookies /\ ck_file' = ck_file)
        /\ EndsUnsaved => (ck_file' = ck_file0 /\ redis_ck_hash' = ck_hash0) ]_vars

(* ------------------------------------------------------------------ *)
(* C27                                                                  *)
(* ------------------------------------------------------------------ *)

\* C27: every cache access is the IP job's on the IP key or the CK job's
\* write of the CK hash key, so no key is used by two jobs; a step of the IP
\* job leaves the cached CK hash alone, a step of the CK job leaves the
\* cached IP alone, and a step of a pass leaves the whole cache alone.
C27_NoSharedCacheKey ==
    [][ /\ \A e \in cache_log' :
            \/ e.job = "ip" /\ e.key = "current_ip"
            \/ e.job = "ck" /\ e.key = "current_ck_hash" /\ e.op = "set"
        /\ (ip_pc' # ip_pc) => (redis_ck_hash' = redis_ck_hash)
        /\ (ck_pc' # ck_pc) => (redis_ip' = redis_ip)
        /\ (pc' # pc) => /\ redis_ip' = redis_ip
                         /\ redis_ck_hash' = redis_ck_hash
                         /\ cache_log' = cache_log ]_vars

\* The IP job has read and written its key and the CK job has written its
\* key while a pass was running.
C27_Witness ==
    /\ \E c \in Procs : pc[c] \in {"clean", "add"}
    /\ redis_ip = "10.0.0.1"
    /\ redis_ck_hash # None
    /\ { [job |-> "ip", op |-> "get", key |-> "current_ip", ok |-> TRUE],
         [job |-> "ip", op |-> "set", key |-> "current_ip", ok |-> TRUE],
         [job |-> "ck", op |-> "set", key |-> "current_ck_hash", ok |-> TRUE] } \subseteq cache_log

(* ------------------------------------------------------------------ *)
(* C31                                                                  *)
(* ------------------------------------------------------------------ *)

\* The step is one of a pass, of a cleanup or of the CK job.
PanelJobStep == pc' # pc \/ task' # task \/ ck_pc' # ck_pc

\* C31: a step of a pass, of a cleanup or of the CK job leaves the primary
\* panel's records as they were, and every add or delete request a pass or
\* cleanup has sent went to a panel of QL_PANELS.
C31_PrimaryOnlyRead ==
    [][ /\ PanelJobStep => primary' = primary
        /\ \A c \in Procs : \A k \in calls'[c] :
              k.op \in {"add", "delete"} => k.panel \in {"p1", "p2"} ]_vars

\* A pass has read the primary and sent a delete and an add, which changed
\* a secondary panel, and the CK job has fetched the primary's list.
C31_Witness ==
    /\ ck_cookies # <<>>
    /\ \E c \in Procs :
        /\ kind[c] = "sync"
        /\ main_cookies[c] # <<>>
        /\ \E k \in calls[c] : k.op = "delete" /\ k.arg # {}
        /\ \E k \in calls[c] : k.op = "add"
        /\ secondary # before[c]

(* ------------------------------------------------------------------ *)
(* C32                                                                  *)
(* ------------------------------------------------------------------ *)

\* C32: a running pass can always take a step of its own, whatever the
\* other pass is doing, and it reaches its end with the phase-2 task of
\* every panel returned (which the join after phase 1 precedes).
C32_PassTerminates ==
    /\ [](\A c \in Procs : pc[c] \in {"clean", "add"} => ENABLED PassStep(c))
    /\ \A c \in Procs :
          (pc[c] \in {"clean", "add"}) ~>
              (pc[c] = "done" /\ \A p \in QL_PANELS : task[c][p].st = "added")

\* A pass has ended after a request of one of its tasks failed, while the
\* other pass was still running.
C32_Witness ==
    \E c \in Procs :
        /\ pc[c] = "done"
        /\ \A p \in QL_PANELS : task[c][p].st = "added"
        /\ \E p \in QL_PANELS : ~clean_results[c][p].success \/ ~add_results[c][p].success
        /\ \E d \in Procs \ {c} : pc[d] \in {"clean", "add"}

====
